---- MODULE Spec2Model ----
(***************************************************************************)
(* Model of the pressure-sole dashboard's timeline core:                   *)
(*   - DeliveryDetail's synchronized-timeline memo (event index, global    *)
(*     zero, per-foot alignment, phase markers),                           *)
(*   - PressureHeatmapSVG's region aggregation and calculateCoP,           *)
(*   - RegionalPressureTimeline's regional datasets.                       *)
(***************************************************************************)
EXTENDS Integers, Sequences, FiniteSets, TLC

VARIABLES
    delivery,        \* the selected Delivery (its ball_id)
    stanceMetrics,   \* StanceMetricsFile: [balls |-> <<BallStanceData>>]
    eventsFile,      \* EventsFile: [balls |-> <<BallEventData>>]
    timeline,        \* result of the timeline memo {leftData, rightData, phaseMarkers}
    pc,              \* position of the component under study
    leftFootData,    \* the aligned series handed to the heatmap and the chart
    rightFootData,
    viewMode,        \* PressureHeatmapSVG: 'heatmap' | 'cop'
    currentTime,     \* PressureHeatmapSVG: the playback clock, ms on the delivery's timeline
    point,           \* the data point of the frame drawn last, or null
    sensorCentroids, \* sensor id -> centroid {x, y} of one foot
    leftPathsRef,    \* the region names of the SVG paths mapped so far (empty until the SVG loads)
    regionValues,    \* the regions as drawn last: neutral, or coloured by their values
    cop,             \* what calculateCoP returned for the frame drawn last
    copDot,          \* the CoP dot's attributes: opacity, cx, cy, r
    regionalData,    \* RegionalPressureTimeline's regionalDatasets
    view,            \* App: 'session' | 'delivery-detail'
    isPlaying,       \* PressureHeatmapSVG: the clock is Playing
    playbackSpeed,   \* PressureHeatmapSVG: the speed multiplier, a fraction
    maxTime,         \* PressureHeatmapSVG: the maxTime memo of the mounted series
    animationFrame,  \* the animation frame requested last and not cancelled, or null
    pendingEffect,   \* the committed render whose animation-loop effect has not run yet, or null
    orphanFrame,     \* an unmounted heatmap's animation frame is still requested
    lastOp,          \* the operation that acted last, with the clock it acted on
    loading,         \* App: the documents are being fetched
    error,           \* App: the message of the load error, or null
    report,          \* App: the pressure report, or null
    fetches,         \* the three document fetches: pending, ok, or the error they failed with
    svgLoads,        \* the loadCentroids calls in flight: the URLs each has still to load
    installed,       \* per foot, the SVG whose markup and paths the refs hold
    centroidState,   \* per foot, the sensor-centroid map: empty, populated, or written again
    effectMode       \* the viewMode the SVG effect ran for last

deliveryVars == <<delivery, stanceMetrics, eventsFile, timeline>>
frameVars == <<leftFootData, rightFootData, viewMode, currentTime, point, sensorCentroids, leftPathsRef,
               regionValues, cop, copDot, regionalData>>
clockVars == <<view, isPlaying, playbackSpeed, maxTime, animationFrame, pendingEffect,
               orphanFrame, lastOp>>
appVars == <<loading, error, report, fetches>>
svgVars == <<svgLoads, installed, centroidState, effectMode>>
vars == <<deliveryVars, frameVars, pc, clockVars, appVars, svgVars>>

(***************************************************************************)
(* Bounds of the explored inputs.                                          *)
(***************************************************************************)
MaxStances == 2      \* stances of one delivery, both feet together
MaxEvents == 2       \* contact events of one delivery, both feet together
MaxSamples == 3      \* samples of the left foot's series looked up by the playback cursor
MaxLag == 20         \* ms the cursor is followed below 0
MaxLoads == 2        \* loadCentroids calls in flight at a time

(***************************************************************************)
(* JavaScript values.                                                      *)
(***************************************************************************)
\* undefined: what Array.find and Map.get return when nothing matches
Undefined == [undefined |-> TRUE]
IsUndefined(v) == "undefined" \in DOMAIN v

\* Infinity, the start value of the minimum search
Infinity == [infinite |-> TRUE, value |-> 0]

SeqsUpTo(S, n) == UNION {[1..k -> S] : k \in 0..n}

MinOf(S) == CHOOSE m \in S : \A o \in S : m <= o
MaxOf(S) == CHOOSE m \in S : \A o \in S : m >= o
Range(s) == {s[i] : i \in DOMAIN s}

(***************************************************************************)
(* DeliveryDetail: the records of the selected delivery.                   *)
(***************************************************************************)
\* Array.prototype.find(ball => ball.ball_id === id)
RECURSIVE FindBall(_, _)
FindBall(balls, id) ==
    IF balls = <<>> THEN Undefined
    ELSE IF Head(balls).ball_id = id THEN Head(balls)
    ELSE FindBall(Tail(balls), id)

ballStanceData == FindBall(stanceMetrics.balls, delivery.ball_id)
ballEvents == FindBall(eventsFile.balls, delivery.ball_id)

(***************************************************************************)
(* Step 1: the events map, stance_id -> ContactEvent.                      *)
(***************************************************************************)
\* e.Left || [] : a list that is not there reads as the empty list
ListOrEmpty(obj, key) == IF key \in DOMAIN obj THEN obj[key] ELSE <<>>

RECURSIVE FlatMapKey(_, _)
FlatMapKey(arr, key) ==
    IF arr = <<>> THEN <<>>
    ELSE ListOrEmpty(Head(arr), key) \o FlatMapKey(Tail(arr), key)

\* Mutant: of an array payload only the Left lists are read
FootEvents_ArrayLeftOnly(events, key) ==
    IF events.isArray THEN (IF key = "Left" THEN FlatMapKey(events.items, key) ELSE <<>>)
    ELSE ListOrEmpty(events.object, key)

\* An events payload is an object {Left, Right} or an array of such objects.
FootEvents(events, key) ==
    IF events.isArray THEN FlatMapKey(events.items, key)
    ELSE ListOrEmpty(events.object, key)

leftEvents(be) == FootEvents(be.events, "Left")
rightEvents(be) == FootEvents(be.events, "Right")

\* Map.prototype.set
MapSet(m, k, v) == [i \in (DOMAIN m) \cup {k} |-> IF i = k THEN v ELSE m[i]]
EmptyMap == [i \in {} |-> Undefined]
\* Map.prototype.get
MapGet(m, k) == IF k \in DOMAIN m THEN m[k] ELSE Undefined

\* Mutant: a stance_id that is in the map already keeps its first event
RECURSIVE SetAll_KeepFirst(_, _)
SetAll_KeepFirst(m, evts) ==
    IF evts = <<>> THEN m
    ELSE IF Head(evts).stance_id \in DOMAIN m THEN SetAll_KeepFirst(m, Tail(evts))
    ELSE SetAll_KeepFirst(MapSet(m, Head(evts).stance_id, Head(evts)), Tail(evts))

\* [...leftEvents, ...rightEvents].forEach(evt => eventsMap.set(evt.stance_id, evt))
RECURSIVE SetAll(_, _)
SetAll(m, evts) ==
    IF evts = <<>> THEN m
    ELSE SetAll(MapSet(m, Head(evts).stance_id, Head(evts)), Tail(evts))

eventsMap(be) == SetAll(EmptyMap, leftEvents(be) \o rightEvents(be))

(***************************************************************************)
(* Step 2: the global start time.                                          *)
(***************************************************************************)
\* let minTime = Infinity; eventsMap.forEach(evt => { if (evt.ic_ts_ms < minTime) minTime = evt.ic_ts_ms })
RECURSIVE MinScan(_, _, _)
MinScan(m, keys, least) ==
    IF keys = {} THEN least
    ELSE LET k == CHOOSE k \in keys : TRUE
             lower == least.infinite \/ m[k].ic_ts_ms < least.value
         IN MinScan(m, keys \ {k},
                    IF lower THEN [infinite |-> FALSE, value |-> m[k].ic_ts_ms] ELSE least)

\* Mutant: the scan keeps the latest contact instead of the earliest
minTime_Latest(m) ==
    IF DOMAIN m = {} THEN 0 ELSE MaxOf({m[k].ic_ts_ms : k \in DOMAIN m})

\* if (minTime === Infinity) minTime = 0
minTime(m) ==
    LET scanned == MinScan(m, DOMAIN m, Infinity)
    IN IF scanned.infinite THEN 0 ELSE scanned.value

(***************************************************************************)
(* Step 3: one foot's points on the delivery's time axis.                  *)
(***************************************************************************)
\* Mutant: the spread copy drops the sample's sensors
ShiftPoint_DropSensors(pt, offset) ==
    [pt EXCEPT !.t_ms = pt.t_ms + offset, !.sensors = [S1 |-> 0, S7 |-> 0]]

\* {...pt, t_ms: pt.t_ms + offset}
ShiftPoint(pt, offset) == [pt EXCEPT !.t_ms = pt.t_ms + offset]

RECURSIVE ShiftAll(_, _)
ShiftAll(traj, offset) ==
    IF traj = <<>> THEN <<>>
    ELSE <<ShiftPoint(Head(traj), offset)>> \o ShiftAll(Tail(traj), offset)

\* Mutant: a stance without an event is placed at absolute time 0
StancePoints_FallbackZero(stance, m, zero) ==
    LET event == MapGet(m, stance.stance_id)
    IN IF IsUndefined(event) THEN ShiftAll(stance.cop_trajectory, 0 - zero)
       ELSE ShiftAll(stance.cop_trajectory, event.ic_ts_ms - zero)

\* The points one stance pushes to allPoints
StancePoints(stance, m, zero) ==
    LET event == MapGet(m, stance.stance_id)
    IN IF IsUndefined(event) THEN <<>>
       ELSE ShiftAll(stance.cop_trajectory, event.ic_ts_ms - zero)

RECURSIVE AllPoints(_, _, _)
AllPoints(stances, m, zero) ==
    IF stances = <<>> THEN <<>>
    ELSE StancePoints(Head(stances), m, zero) \o AllPoints(Tail(stances), m, zero)

\* Mutant: a point whose time is in the sorted list already is left out
RECURSIVE InsertByTime_DropTies(_, _)
InsertByTime_DropTies(sorted, p) ==
    IF sorted = <<>> THEN <<p>>
    ELSE IF Head(sorted).t_ms = p.t_ms THEN sorted
    ELSE IF Head(sorted).t_ms < p.t_ms
         THEN <<Head(sorted)>> \o InsertByTime_DropTies(Tail(sorted), p)
         ELSE <<p>> \o sorted

\* Array.prototype.sort((a, b) => a.t_ms - b.t_ms): stable, ascending in t_ms
RECURSIVE InsertByTime(_, _)
InsertByTime(sorted, p) ==
    IF sorted = <<>> THEN <<p>>
    ELSE IF Head(sorted).t_ms <= p.t_ms
         THEN <<Head(sorted)>> \o InsertByTime(Tail(sorted), p)
         ELSE <<p>> \o sorted

RECURSIVE SortFrom(_, _)
SortFrom(done, rest) ==
    IF rest = <<>> THEN done
    ELSE SortFrom(InsertByTime(done, Head(rest)), Tail(rest))

\* Mutant: the points are returned in push order
SortByTime_PushOrder(points) == points

SortByTime(points) == SortFrom(<<>>, points)

processFoot(stances, m, zero) == SortByTime(AllPoints(stances, m, zero))

(***************************************************************************)
(* Step 4: the phase markers.                                              *)
(***************************************************************************)
\* Mutant: only the Left foot's stances are searched for the phase
TaggedStances_LeftOnly(sd, phase) ==
    SelectSeq(sd.stance_metrics.Left, LAMBDA s : s.phase = phase)

\* [...Left, ...Right].filter(s => s.phase === phase)
TaggedStances(sd, phase) ==
    SelectSeq(sd.stance_metrics.Left \o sd.stance_metrics.Right,
              LAMBDA s : s.phase = phase)

\* (eventsMap.get(s.stance_id)?.ic_ts_ms || 0): no event, or a timestamp 0, reads as 0
TimestampOrZero(m, stance, field) ==
    LET event == MapGet(m, stance.stance_id)
    IN IF IsUndefined(event) THEN 0 ELSE event[field]

PhaseMarker(sd, m, zero, phase, color) ==
    LET tagged == TaggedStances(sd, phase)
        startTimes == {TimestampOrZero(m, tagged[i], "ic_ts_ms") - zero : i \in DOMAIN tagged}
        endTimes == {TimestampOrZero(m, tagged[i], "to_ts_ms") - zero : i \in DOMAIN tagged}
    IN IF Len(tagged) > 0
       THEN <<[name |-> phase, start |-> MinOf(startTimes), end |-> MaxOf(endTimes),
               color |-> color]>>
       ELSE <<>>

(***************************************************************************)
(* The timeline memo of DeliveryDetail.                                    *)
(***************************************************************************)
EmptyTimeline ==
    [leftData |-> <<>>, rightData |-> <<>>, phaseMarkers |-> <<>>,
     minTime |-> 0, threw |-> FALSE]

\* A TypeError leaves the memo without a value: the render fails.
Thrown == [EmptyTimeline EXCEPT !.threw = TRUE]

\* The memo's body below its guard. Reading a property of undefined throws.
\* minTime is the body's local, kept beside the three returned fields.
SynchronizedTimeline(sd, be) ==
    IF IsUndefined(sd) \/ IsUndefined(be) THEN Thrown
    ELSE LET m == eventsMap(be)
             zero == minTime(m)
         IN [leftData |-> processFoot(sd.stance_metrics.Left, m, zero),
             rightData |-> processFoot(sd.stance_metrics.Right, m, zero),
             phaseMarkers |-> PhaseMarker(sd, m, zero, "BFC", "#FF6B35")
                              \o PhaseMarker(sd, m, zero, "FFC", "#2196F3"),
             minTime |-> zero,
             threw |-> FALSE]

\* Mutant: the guard forgets the events record
TimelineMemo_NoEventsGuard(sd, be) ==
    IF IsUndefined(sd) THEN EmptyTimeline
    ELSE SynchronizedTimeline(sd, be)

\* if (!ballStanceData || !ballEvents) return { leftData: [], rightData: [], phaseMarkers: [] }
TimelineMemo(sd, be) ==
    IF IsUndefined(sd) \/ IsUndefined(be) THEN EmptyTimeline
    ELSE SynchronizedTimeline(sd, be)

(***************************************************************************)
(* PressureHeatmapSVG: region values of a frame.                           *)
(***************************************************************************)
\* null: what findClosestPoint and calculateCoP return for "no contact"
Null == [null |-> TRUE]
IsNull(v) == "null" \in DOMAIN v

\* Mutant: S6 is summed into UpperMid as well
SENSOR_REGIONS_Overlap ==
    [ForeFoot |-> <<"S1", "S2">>,
     UpperMid |-> <<"S3", "S4", "S5", "S6">>,
     LowerMid |-> <<"S6">>,
     Heel |-> <<"S7", "S8">>]

SENSOR_REGIONS ==
    [ForeFoot |-> <<"S1", "S2">>,
     UpperMid |-> <<"S3", "S4", "S5">>,
     LowerMid |-> <<"S6">>,
     Heel |-> <<"S7", "S8">>]

Regions == DOMAIN SENSOR_REGIONS

\* point.sensors[sensor] || 0 : a channel the sample lacks reads as 0
SensorOrZero(sensors, sensor) ==
    IF sensor \in DOMAIN sensors THEN sensors[sensor] ELSE 0

\* sensors.reduce((acc, sensor) => acc + (point.sensors[sensor] || 0), 0)
RECURSIVE ReduceSum(_, _, _)
ReduceSum(channels, sensors, acc) ==
    IF channels = <<>> THEN acc
    ELSE ReduceSum(Tail(channels), sensors, acc + SensorOrZero(sensors, Head(channels)))

RegionValueOf(sensors, region) == ReduceSum(SENSOR_REGIONS[region], sensors, 0)

\* Object.entries(SENSOR_REGIONS).forEach(([region, sensors]) => regionValues[region] = sum)
RegionValuesOf(sensors) ==
    [region \in Regions |-> RegionValueOf(sensors, region)]

(***************************************************************************)
(* PressureHeatmapSVG: findClosestPoint.                                   *)
(***************************************************************************)
\* Mutant: a sample exactly 25 away qualifies as well
RECURSIVE FindNear_Inclusive(_, _)
FindNear_Inclusive(data, time) ==
    IF data = <<>> THEN Undefined
    ELSE IF Head(data).t_ms - time <= 25 /\ time - Head(data).t_ms <= 25 THEN Head(data)
    ELSE FindNear_Inclusive(Tail(data), time)

\* data.find(p => Math.abs(p.t_ms - time) < 25)
RECURSIVE FindNear(_, _)
FindNear(data, time) ==
    IF data = <<>> THEN Undefined
    ELSE IF Head(data).t_ms - time < 25 /\ time - Head(data).t_ms < 25 THEN Head(data)
    ELSE FindNear(Tail(data), time)

findClosestPoint(data, time) ==
    IF data = <<>> THEN Null
    ELSE IF time < data[1].t_ms - 50 THEN Null
    ELSE IF time > data[Len(data)].t_ms + 50 THEN Null
    ELSE LET closest == FindNear(data, time)
         IN IF IsUndefined(closest) THEN Null ELSE closest

(***************************************************************************)
(* PressureHeatmapSVG: calculateCoP.                                       *)
(***************************************************************************)
RECURSIVE GCD(_, _)
GCD(a, b) == IF b = 0 THEN a ELSE GCD(b, a % b)
Abs(a) == IF a < 0 THEN 0 - a ELSE a

\* a / b for b > 0: the quotient as the fraction in lowest terms that a number is
Quotient(a, b) ==
    LET g == GCD(Abs(a), b)
    IN [num |-> a \div g, den |-> b \div g]

\* Mutant: a sensor without a centroid entry is taken to sit at the origin
AddSensor_MissingCentroidAtOrigin(totals, centroids, sensors, sensorId) ==
    LET val == sensors[sensorId]
        centroid == IF sensorId \in DOMAIN centroids THEN centroids[sensorId]
                    ELSE [x |-> 0, y |-> 0]
    IN IF val > 0
       THEN [totalWeightedX |-> totals.totalWeightedX + centroid.x * val,
             totalWeightedY |-> totals.totalWeightedY + centroid.y * val,
             totalForce |-> totals.totalForce + val]
       ELSE totals

\* Mutant: the positions are summed without their weights
AddSensor_Unweighted(totals, centroids, sensors, sensorId) ==
    LET val == sensors[sensorId]
    IN IF val > 0 /\ sensorId \in DOMAIN centroids
       THEN [totalWeightedX |-> totals.totalWeightedX + centroids[sensorId].x,
             totalWeightedY |-> totals.totalWeightedY + centroids[sensorId].y,
             totalForce |-> totals.totalForce + val]
       ELSE totals

\* The forEach callback: val = sensors[sensorId] || 0; centroid = sensorCentroids[sensorId]
AddSensor(totals, centroids, sensors, sensorId) ==
    LET val == sensors[sensorId]
    IN IF val > 0 /\ sensorId \in DOMAIN centroids
       THEN [totalWeightedX |-> totals.totalWeightedX + centroids[sensorId].x * val,
             totalWeightedY |-> totals.totalWeightedY + centroids[sensorId].y * val,
             totalForce |-> totals.totalForce + val]
       ELSE totals

\* Object.keys(sensors).forEach(...)
RECURSIVE Accumulate(_, _, _, _)
Accumulate(keys, centroids, sensors, totals) ==
    IF keys = {} THEN totals
    ELSE LET sensorId == CHOOSE k \in keys : TRUE
         IN Accumulate(keys \ {sensorId}, centroids, sensors,
                       AddSensor(totals, centroids, sensors, sensorId))

calculateCoP(centroids, sensors) ==
    LET totals == Accumulate(DOMAIN sensors, centroids, sensors,
                             [totalWeightedX |-> 0, totalWeightedY |-> 0, totalForce |-> 0])
    IN IF totals.totalForce = 0 THEN Null
       ELSE [x |-> Quotient(totals.totalWeightedX, totals.totalForce),
             y |-> Quotient(totals.totalWeightedY, totals.totalForce),
             force |-> totals.totalForce]

(***************************************************************************)
(* PressureHeatmapSVG: updateFootVisualization for one foot.               *)
(***************************************************************************)
NeutralRegions == [neutral |-> TRUE, values |-> [region \in Regions |-> 0]]
HiddenDot == [opacity |-> 0, cx |-> Quotient(0, 1), cy |-> Quotient(0, 1), r |-> Quotient(0, 1)]

\* Math.min(85, Math.max(25, (cop.force || 0) * 0.2))
dynamicRadius(force) ==
    IF force < 125 THEN Quotient(25, 1)
    ELSE IF force > 425 THEN Quotient(85, 1)
    ELSE Quotient(force, 5)

\* The trail polyline (getTrailPoints) reads the playback clock and is left to it.
updateFootVisualization ==
    /\ point' = findClosestPoint(leftFootData, currentTime)
    /\ IF viewMode = "heatmap"
       THEN /\ copDot' = [copDot EXCEPT !.opacity = 0]
            /\ regionValues' =
                  IF IsNull(point') THEN NeutralRegions
                  ELSE [neutral |-> FALSE, values |-> RegionValuesOf(point'.sensors)]
            /\ UNCHANGED cop
       ELSE /\ regionValues' = NeutralRegions
            /\ IF IsNull(point')
               THEN /\ copDot' = [copDot EXCEPT !.opacity = 0]
                    /\ UNCHANGED cop
               ELSE LET pos == calculateCoP(sensorCentroids, point'.sensors)
                    IN /\ cop' = pos
                       /\ copDot' =
                             IF IsNull(pos) THEN [copDot EXCEPT !.opacity = 0]
                             ELSE [opacity |-> 1, cx |-> pos.x, cy |-> pos.y,
                                   r |-> dynamicRadius(pos.force)]

(***************************************************************************)
(* RegionalPressureTimeline: regionalDatasets.                             *)
(***************************************************************************)
\* data.find(p => p.t_ms === t)
RECURSIVE FindAt(_, _)
FindAt(data, t) ==
    IF data = <<>> THEN Undefined
    ELSE IF Head(data).t_ms = t THEN Head(data)
    ELSE FindAt(Tail(data), t)

\* (leftPoint?.sensors?.S1 || 0)
ChannelOrZero(pt, channel) ==
    IF IsUndefined(pt) THEN 0 ELSE SensorOrZero(pt.sensors, channel)

\* Array.from(timePoints).sort((a, b) => a - b)
RECURSIVE SortedTimes(_)
SortedTimes(S) ==
    IF S = {} THEN <<>>
    ELSE LET least == MinOf(S) IN <<least>> \o SortedTimes(S \ {least})

\* The sums the four datasets spell out channel by channel
ChartRegion(pt, region) ==
    CASE region = "ForeFoot" -> ChannelOrZero(pt, "S1") + ChannelOrZero(pt, "S2")
      [] region = "UpperMid" ->
            ChannelOrZero(pt, "S3") + ChannelOrZero(pt, "S4") + ChannelOrZero(pt, "S5")
      [] region = "LowerMid" -> ChannelOrZero(pt, "S6")
      [] region = "Heel" -> ChannelOrZero(pt, "S7") + ChannelOrZero(pt, "S8")

regionalDatasets(left, right) ==
    LET sortedTimes == SortedTimes({left[i].t_ms : i \in DOMAIN left}
                                   \cup {right[i].t_ms : i \in DOMAIN right})
    IN [region \in {"ForeFoot", "UpperMid", "LowerMid", "Heel"} |->
           [i \in DOMAIN sortedTimes |->
               [time |-> sortedTimes[i],
                Left |-> ChartRegion(FindAt(left, sortedTimes[i]), region),
                Right |-> ChartRegion(FindAt(right, sortedTimes[i]), region)]]]

NoChart == [rendered |-> FALSE, datasets |-> regionalDatasets(<<>>, <<>>)]

(***************************************************************************)
(* PressureHeatmapSVG: maxTime.                                            *)
(***************************************************************************)
\* data[data.length - 1]
LastOf(data) == IF data = <<>> THEN Undefined ELSE data[Len(data)]

maxTimeMemo(left, right) ==
    LET lastLeft == LastOf(left)
        lastRight == LastOf(right)
        afterLeft == IF ~IsUndefined(lastLeft) /\ lastLeft.t_ms > 0 THEN lastLeft.t_ms ELSE 0
        max == IF ~IsUndefined(lastRight) /\ lastRight.t_ms > afterLeft
               THEN lastRight.t_ms ELSE afterLeft
    IN IF max > 0 THEN max ELSE 2000

(***************************************************************************)
(* PressureHeatmapSVG: the playback clock.                                 *)
(*                                                                         *)
(* A handler or an animation callback sets state; React renders and        *)
(* commits; the effects of a commit run later, and at the latest before    *)
(* the next render.  The animation callback of a frame that was requested  *)
(* and not yet cancelled can therefore run between a commit and its        *)
(* effects.                                                                *)
(***************************************************************************)
\* The multipliers of the speed buttons [0.5, 1, 2], as fractions
Half == [num |-> 1, den |-> 2]
Normal == [num |-> 1, den |-> 1]
Double == [num |-> 2, den |-> 1]
Speeds == {Half, Normal, Double}

\* deltaTime * playbackSpeed
Scaled(deltaTime, speed) == (deltaTime * speed.num) \div speed.den

\* The value string of the range input, and parseInt of it
RECURSIVE ToDigits(_)
ToDigits(n) == IF n < 10 THEN <<n>> ELSE Append(ToDigits(n \div 10), n % 10)
RECURSIVE parseInt(_)
parseInt(digits) ==
    IF digits = <<>> THEN 0
    ELSE 10 * parseInt(SubSeq(digits, 1, Len(digits) - 1)) + digits[Len(digits)]

\* The positions the range input offers: min 0, max maxTime, step 10
SliderValues(max) == {v \in 0..max : v % 10 = 0}

\* The four region paths of a loaded sole SVG
LoadedPaths == <<"ForeFoot", "UpperMid", "LowerMid", "Heel">>

\* The visualization effect: draws the committed frame once the paths are mapped
VisualizationEffect ==
    IF Len(leftPathsRef) > 0 THEN updateFootVisualization
    ELSE UNCHANGED <<point, regionValues, cop, copDot>>

\* The animation-loop effect of a commit, after the cleanup of the effect before it:
\* not playing, it cancels the frame; playing, it requests a frame whose callback
\* closes over the commit's playbackSpeed and maxTime.
AnimationLoop(deps) ==
    IF ~deps.isPlaying THEN Null
    ELSE [playbackSpeed |-> deps.playbackSpeed, maxTime |-> deps.maxTime, first |-> TRUE]

\* The frame request left once the effects that are still pending have run
Flushed(frame) == IF IsNull(pendingEffect) THEN frame ELSE AnimationLoop(pendingEffect)

\* What the clock looked like when an operation acted on it
Before == [isPlaying |-> isPlaying, currentTime |-> currentTime,
           playbackSpeed |-> playbackSpeed, viewMode |-> viewMode]
Op(name, value, speed) ==
    [op |-> name, value |-> value, speed |-> speed, prev |-> lastOp.op, before |-> Before]
NoOp == [op |-> "none", value |-> 0, speed |-> Normal, prev |-> "none",
         before |-> [isPlaying |-> FALSE, currentTime |-> 0,
                     playbackSpeed |-> Normal, viewMode |-> "heatmap"]]

\* State was set to (playing, time, speed, mode) and frame is the request the caller
\* leaves: if nothing changed React bails out; otherwise it runs the pending effects,
\* renders and commits, and the effects whose dependencies changed become pending.
Commit(playing, time, speed, mode, frame) ==
    IF playing = isPlaying /\ time = currentTime /\ speed = playbackSpeed /\ mode = viewMode
    THEN /\ animationFrame' = frame
         /\ UNCHANGED <<isPlaying, currentTime, playbackSpeed, viewMode, pendingEffect, pc,
                        point, regionValues, cop, copDot>>
    ELSE /\ isPlaying' = playing
         /\ currentTime' = time
         /\ playbackSpeed' = speed
         /\ viewMode' = mode
         /\ animationFrame' = Flushed(frame)
         /\ IF pc = "idle" THEN VisualizationEffect
            ELSE UNCHANGED <<point, regionValues, cop, copDot>>
         /\ pendingEffect' =
               IF playing # isPlaying \/ speed # playbackSpeed
               THEN [isPlaying |-> playing, playbackSpeed |-> speed, maxTime |-> maxTime]
               ELSE Null
         /\ pc' = IF time # currentTime \/ mode # viewMode THEN "idle" ELSE "drawn"

\* DeliveryDetail renders the heatmap only for a delivery that has a stance record
\* What App returns: the loading page, the error page, the no-data page, or the views
Screen ==
    IF loading THEN "loading"
    ELSE IF ~IsNull(error) THEN "error"
    ELSE IF IsNull(report) THEN "no-data"
    ELSE "views"
AppShown == Screen = "views"

\* view === 'delivery-detail' && selectedDelivery && stanceMetrics && eventsData, and in
\* DeliveryDetail the heatmap under {ballStanceData && ...}
Mounted ==
    /\ AppShown
    /\ view = "delivery-detail"
    /\ ~IsNull(delivery) /\ ~IsNull(stanceMetrics) /\ ~IsNull(eventsFile)
    /\ ~IsUndefined(ballStanceData)

\* The documents are loaded
LoadedReport == [deliveries |-> <<[ball_id |-> 1], [ball_id |-> 2]>>]
AllFetched == [doc \in {"report", "stance", "events"} |-> "ok"]
AppLoaded ==
    /\ loading = FALSE
    /\ error = Null
    /\ report = LoadedReport
    /\ fetches = AllFetched

(***************************************************************************)
(* PressureHeatmapSVG: the SVG effect.  loadCentroids loads the 4-region   *)
(* soles first while the left centroid map is empty, then the soles of the *)
(* view mode; each loadSVG awaits its fetch and then installs the markup,  *)
(* the paths and, from a 4-region sole, the sensor centroids.              *)
(***************************************************************************)
\* `/${foot}_Sole${svgSuffix}.svg`
SoleUrl(foot, mode) == [foot |-> foot, cop |-> mode = "cop"]
PressureSoles == <<SoleUrl("Left", "heatmap"), SoleUrl("Right", "heatmap")>>
DisplaySoles(mode) == <<SoleUrl("Left", mode), SoleUrl("Right", mode)>>
NoSole == [none |-> TRUE]

\* The URLs one loadCentroids call loads, in order
LoadQueue(mode, centroids) ==
    (IF DOMAIN centroids = {} THEN PressureSoles ELSE <<>>) \o DisplaySoles(mode)

\* mappedPaths of a sole: the four regions, or the one grey base of the CoP sole
PathsOf(url) == IF url.cop THEN <<"FullSole">> ELSE LoadedPaths

\* centroidsRef.current[sensor] = centroid, for a sole that is not the CoP sole
Populated(state) == IF state = "empty" THEN "populated" ELSE "rewritten"

SvgIdle ==
    /\ svgLoads = <<>>
    /\ installed = [foot \in {"Left", "Right"} |-> NoSole]
    /\ centroidState = [foot \in {"Left", "Right"} |-> "empty"]
    /\ effectMode = "none"

\* The effect of a commit with a new viewMode (or of the mount): loadCentroids() runs
\* to its first await
loadCentroids ==
    /\ Mounted
    /\ effectMode # viewMode
    /\ Len(svgLoads) < MaxLoads
    /\ effectMode' = viewMode
    /\ svgLoads' = Append(svgLoads, LoadQueue(viewMode, sensorCentroids))
    /\ UNCHANGED <<deliveryVars, frameVars, pc, clockVars, appVars, installed, centroidState>>

\* The fetch a loadCentroids call awaits has answered: loadSVG installs the markup and
\* the mapped paths, a 4-region sole writes its foot's centroids, and the call goes on
\* to its next URL
SvgFetched(n, centroids) ==
    /\ Mounted
    /\ n \in DOMAIN svgLoads
    /\ LET url == Head(svgLoads[n])
           rest == Tail(svgLoads[n])
       IN /\ installed' = [installed EXCEPT ![url.foot] = url]
          /\ centroidState' =
                IF url.cop THEN centroidState
                ELSE [centroidState EXCEPT ![url.foot] = Populated(@)]
          /\ IF url.foot = "Left"
             THEN /\ leftPathsRef' = PathsOf(url)
                  /\ sensorCentroids' = IF url.cop THEN sensorCentroids ELSE centroids
             ELSE UNCHANGED <<leftPathsRef, sensorCentroids>>
          /\ svgLoads' =
                IF rest = <<>> THEN SelectSeq([i \in DOMAIN svgLoads |->
                                                  IF i = n THEN <<>> ELSE svgLoads[i]],
                                              LAMBDA q : q # <<>>)
                ELSE [svgLoads EXCEPT ![n] = rest]
    /\ UNCHANGED <<deliveryVars, leftFootData, rightFootData, viewMode, currentTime, point,
                   regionValues, cop, copDot, regionalData, pc, clockVars, appVars, effectMode>>

\* Mutant: the button only ever starts the clock
TogglePlay_PlayOnly ==
    /\ Mounted
    /\ Commit(TRUE, currentTime, playbackSpeed, viewMode, animationFrame)
    /\ lastOp' = Op(IF isPlaying THEN "pause" ELSE "play", 0, playbackSpeed)
    /\ UNCHANGED <<appVars, svgVars, deliveryVars, leftFootData, rightFootData, sensorCentroids, leftPathsRef,
                   regionalData, view, maxTime, orphanFrame>>

\* The Play/Pause button: setIsPlaying(!isPlaying)
TogglePlay ==
    /\ Mounted
    /\ Commit(~isPlaying, currentTime, playbackSpeed, viewMode, animationFrame)
    /\ lastOp' = Op(IF isPlaying THEN "pause" ELSE "play", 0, playbackSpeed)
    /\ UNCHANGED <<appVars, svgVars, deliveryVars, leftFootData, rightFootData, sensorCentroids, leftPathsRef,
                   regionalData, view, maxTime, orphanFrame>>

\* Mutant: Reset stops the clock where it is
Reset_KeepCursor ==
    /\ Mounted
    /\ Commit(FALSE, currentTime, playbackSpeed, viewMode, animationFrame)
    /\ lastOp' = Op("reset", 0, playbackSpeed)
    /\ UNCHANGED <<appVars, svgVars, deliveryVars, leftFootData, rightFootData, sensorCentroids, leftPathsRef,
                   regionalData, view, maxTime, orphanFrame>>

\* The Reset button: setIsPlaying(false); setCurrentTime(0)
Reset ==
    /\ Mounted
    /\ Commit(FALSE, 0, playbackSpeed, viewMode, animationFrame)
    /\ lastOp' = Op("reset", 0, playbackSpeed)
    /\ UNCHANGED <<appVars, svgVars, deliveryVars, leftFootData, rightFootData, sensorCentroids, leftPathsRef,
                   regionalData, view, maxTime, orphanFrame>>

\* Mutant: a scrub moves the cursor and leaves autoplay running
Scrub_KeepPlaying(value) ==
    /\ Mounted
    /\ value \in SliderValues(maxTime)
    /\ Commit(isPlaying, parseInt(ToDigits(value)), playbackSpeed, viewMode, animationFrame)
    /\ lastOp' = Op("scrub", value, playbackSpeed)
    /\ UNCHANGED <<appVars, svgVars, deliveryVars, leftFootData, rightFootData, sensorCentroids, leftPathsRef,
                   regionalData, view, maxTime, orphanFrame>>

\* The range input's onChange: setIsPlaying(false); setCurrentTime(parseInt(e.target.value))
Scrub(value) ==
    /\ Mounted
    /\ value \in SliderValues(maxTime)
    /\ Commit(FALSE, parseInt(ToDigits(value)), playbackSpeed, viewMode, animationFrame)
    /\ lastOp' = Op("scrub", value, playbackSpeed)
    /\ UNCHANGED <<appVars, svgVars, deliveryVars, leftFootData, rightFootData, sensorCentroids, leftPathsRef,
                   regionalData, view, maxTime, orphanFrame>>

\* Mutant: a speed button rewinds the cursor as well
SetSpeed_Rewinds(speed) ==
    /\ Mounted
    /\ Commit(isPlaying, 0, speed, viewMode, animationFrame)
    /\ lastOp' = Op("setSpeed", 0, speed)
    /\ UNCHANGED <<appVars, svgVars, deliveryVars, leftFootData, rightFootData, sensorCentroids, leftPathsRef,
                   regionalData, view, maxTime, orphanFrame>>

\* A speed button: setPlaybackSpeed(speed)
SetSpeed(speed) ==
    /\ Mounted
    /\ Commit(isPlaying, currentTime, speed, viewMode, animationFrame)
    /\ lastOp' = Op("setSpeed", 0, speed)
    /\ UNCHANGED <<appVars, svgVars, deliveryVars, leftFootData, rightFootData, sensorCentroids, leftPathsRef,
                   regionalData, view, maxTime, orphanFrame>>

\* Mutant: a mode toggle stops the clock
SetViewMode_Stops(mode) ==
    /\ Mounted
    /\ Commit(FALSE, currentTime, playbackSpeed, mode, animationFrame)
    /\ lastOp' = Op("setViewMode", 0, playbackSpeed)
    /\ UNCHANGED <<appVars, svgVars, deliveryVars, leftFootData, rightFootData, sensorCentroids, leftPathsRef,
                   regionalData, view, maxTime, orphanFrame>>

\* A mode toggle button: setViewMode(mode)
SetViewMode(mode) ==
    /\ Mounted
    /\ Commit(isPlaying, currentTime, playbackSpeed, mode, animationFrame)
    /\ lastOp' = Op("setViewMode", 0, playbackSpeed)
    /\ UNCHANGED <<appVars, svgVars, deliveryVars, leftFootData, rightFootData, sensorCentroids, leftPathsRef,
                   regionalData, view, maxTime, orphanFrame>>

\* animate: the callback of the requested frame, deltaTime after the tick before it.
\* The updater adds deltaTime * playbackSpeed; at maxTime it stops the clock and
\* returns 0.  The callback requests the next frame whatever the updater did.
\* The first callback of an effect measures deltaTime from the effect's performance.now(),
\* the later ones from the timestamp of the callback before.
animate(deltaTime) ==
    /\ Mounted
    /\ ~IsNull(animationFrame)
    /\ deltaTime < 0 => animationFrame.first
    /\ LET nextTime == currentTime + Scaled(deltaTime, animationFrame.playbackSpeed)
           ended == nextTime >= animationFrame.maxTime
       IN /\ nextTime >= 0 - MaxLag
          /\ Commit(IF ended THEN FALSE ELSE isPlaying, IF ended THEN 0 ELSE nextTime,
                    playbackSpeed, viewMode, [animationFrame EXCEPT !.first = FALSE])
    /\ lastOp' = Op("tick", deltaTime, animationFrame.playbackSpeed)
    /\ UNCHANGED <<appVars, svgVars, deliveryVars, leftFootData, rightFootData, sensorCentroids, leftPathsRef,
                   regionalData, view, maxTime, orphanFrame>>

\* The hooks' initial values, and nothing requested
ClockIdle ==
    /\ isPlaying = FALSE
    /\ playbackSpeed = Normal
    /\ maxTime = maxTimeMemo(<<>>, <<>>)
    /\ animationFrame = Null
    /\ pendingEffect = Null
    /\ orphanFrame = FALSE
    /\ lastOp = NoOp

(***************************************************************************)
(* App: selecting a delivery mounts DeliveryDetail and its heatmap; going  *)
(* back unmounts them.                                                     *)
(***************************************************************************)
\* setSelectedDelivery(delivery); setView('delivery-detail'), and the first render of
\* DeliveryDetail and PressureHeatmapSVG with it.  The render runs what is pending first.
handleSelectDelivery(d) ==
    /\ AppShown
    /\ view = "session"
    /\ view' = "delivery-detail"
    /\ delivery' = d
    /\ LET sd == FindBall(stanceMetrics.balls, d.ball_id)
           be == FindBall(eventsFile.balls, d.ball_id)
           memo == TimelineMemo(sd, be)
       IN /\ timeline' = memo
          /\ leftFootData' = memo.leftData
          /\ rightFootData' = memo.rightData
          /\ maxTime' = maxTimeMemo(memo.leftData, memo.rightData)
    /\ currentTime' = 0
    /\ isPlaying' = FALSE
    /\ playbackSpeed' = Normal
    /\ viewMode' = "heatmap"
    /\ animationFrame' = Null
    /\ pendingEffect' = Null
    /\ orphanFrame' = FALSE
    /\ leftPathsRef' = <<>>
    /\ pc' = "drawn"
    /\ lastOp' = Op("select", d.ball_id, Normal)
    /\ svgLoads' = <<>>
    /\ installed' = [foot \in {"Left", "Right"} |-> NoSole]
    /\ centroidState' = [foot \in {"Left", "Right"} |-> "empty"]
    /\ effectMode' = "none"
    /\ UNCHANGED <<appVars, stanceMetrics, eventsFile, point, sensorCentroids, regionValues, cop,
                   copDot, regionalData>>

\* setSelectedDelivery(null); setView('session'): the heatmap unmounts with its state.
\* The cleanup of its animation-loop effect runs with the effects of this commit.
handleBackToGallery ==
    /\ AppShown
    /\ view = "delivery-detail"
    /\ view' = "session"
    /\ delivery' = Null
    /\ timeline' = EmptyTimeline
    /\ leftFootData' = <<>>
    /\ rightFootData' = <<>>
    /\ maxTime' = maxTimeMemo(<<>>, <<>>)
    /\ currentTime' = 0
    /\ isPlaying' = FALSE
    /\ playbackSpeed' = Normal
    /\ viewMode' = "heatmap"
    /\ animationFrame' = Null
    /\ pendingEffect' = Null
    /\ orphanFrame' = ~IsNull(Flushed(animationFrame))
    /\ leftPathsRef' = <<>>
    /\ point' = Null
    /\ regionValues' = NeutralRegions
    /\ cop' = Null
    /\ copDot' = HiddenDot
    /\ sensorCentroids' = [k \in {} |-> [x |-> 0, y |-> 0]]
    /\ regionalData' = NoChart
    /\ pc' = "drawn"
    /\ lastOp' = Op("back", 0, playbackSpeed)
    /\ svgLoads' = <<>>
    /\ installed' = [foot \in {"Left", "Right"} |-> NoSole]
    /\ centroidState' = [foot \in {"Left", "Right"} |-> "empty"]
    /\ effectMode' = "none"
    /\ UNCHANGED <<appVars, stanceMetrics, eventsFile>>

\* The callback of a frame the unmounted heatmap had requested: its updater acts on
\* state that is gone, and it requests the next frame.
OrphanTick ==
    /\ orphanFrame
    /\ lastOp' = Op("orphanTick", 0, playbackSpeed)
    /\ UNCHANGED <<appVars, svgVars, deliveryVars, frameVars, pc, view, isPlaying, playbackSpeed, maxTime,
                   animationFrame, pendingEffect, orphanFrame>>

\* The cleanup of the unmounted heatmap's animation-loop effect: cancelAnimationFrame
OrphanCleanup ==
    /\ orphanFrame
    /\ orphanFrame' = FALSE
    /\ UNCHANGED <<appVars, svgVars, deliveryVars, frameVars, pc, view, isPlaying, playbackSpeed, maxTime,
                   animationFrame, pendingEffect, lastOp>>

\* The mount's loadCentroids call from its start to its last loadSVG, nothing in
\* between: the region paths are mapped and the sensor centroids read
SvgLoaded(centroids) ==
    /\ Mounted
    /\ leftPathsRef = <<>>
    /\ effectMode = "none"
    /\ svgLoads = <<>>
    /\ effectMode' = viewMode
    /\ svgLoads' = <<>>
    /\ installed' = [foot \in {"Left", "Right"} |-> SoleUrl(foot, viewMode)]
    /\ centroidState' =
          [foot \in {"Left", "Right"} |->
              IF viewMode = "cop" THEN "populated" ELSE "rewritten"]
    /\ leftPathsRef' = PathsOf(SoleUrl("Left", viewMode))
    /\ sensorCentroids' = centroids
    /\ UNCHANGED <<appVars, deliveryVars, leftFootData, rightFootData, viewMode, currentTime,
                   point, regionValues, cop, copDot, regionalData, pc, clockVars>>

(***************************************************************************)
(* Input documents explored.                                               *)
(***************************************************************************)
\* The selected delivery, and the ball of another delivery of the session
SelectedDelivery == [ball_id |-> 1]
OtherBall == [ball_id |-> 2, stance_metrics |-> [Left |-> <<>>, Right |-> <<>>]]

StanceIds == {1, 2}
Feet == {"Left", "Right"}

\* A CoPPoint; k tells the samples apart
Pt(t, k) ==
    [t_ms |-> t, x |-> k, y |-> 10 + k, sumW |-> 3 * k,
     sensors |-> [S1 |-> k, S7 |-> 2 * k]]

TrajA == <<Pt(0, 1), Pt(5, 2), Pt(10, 3)>>
TrajB == <<Pt(0, 4), Pt(300, 5)>>
TrajC == <<Pt(0, 6)>>

\* Contact windows (ic_ts_ms, to_ts_ms) on the absolute clock
Windows == {<<1000, 1040>>, <<1200, 1300>>}

Stance(id, foot, phase, traj) ==
    [stance_id |-> id, foot |-> foot, phase |-> phase, cop_trajectory |-> traj]

Event(id, foot, w) ==
    [stance_id |-> id, foot |-> foot, ic_ts_ms |-> w[1], to_ts_ms |-> w[2]]

\* Stances that differ in their trajectories, and stances that differ in their phase
TrajectoryStances(foot) ==
    {Stance(id, foot, "RUNUP_LAST", traj) : id \in StanceIds, traj \in {TrajA, TrajB}}
PhaseStances(foot) ==
    {Stance(id, foot, phase, TrajC) : id \in StanceIds, phase \in {"BFC", "FFC"}}

FootEventSet(foot) == {Event(id, foot, w) : id \in StanceIds, w \in Windows}

\* Left and Right lists holding at most n entries together
ListPairs(L, R, n) ==
    {p \in SeqsUpTo(L, n) \X SeqsUpTo(R, n) : Len(p[1]) + Len(p[2]) <= n}

StanceMetricsOf(L, R) ==
    {[Left |-> p[1], Right |-> p[2]] : p \in ListPairs(L, R, MaxStances)}

\* A delivery with three contacts: back foot (Left) once, front foot (Right) twice
ThreeContactStances ==
    [Left |-> <<Stance(1, "Left", "BFC", TrajC)>>,
     Right |-> <<Stance(2, "Right", "FFC", TrajC), Stance(3, "Right", "FFC", TrajC)>>]
ThreeContactEvents ==
    [Left |-> <<Event(1, "Left", <<1000, 1040>>)>>,
     Right |-> <<Event(2, "Right", <<1050, 1090>>), Event(3, "Right", <<1070, 1110>>)>>]

BallStanceInputs ==
    StanceMetricsOf(TrajectoryStances("Left"), TrajectoryStances("Right"))
    \cup StanceMetricsOf(PhaseStances("Left"), PhaseStances("Right"))
    \cup {ThreeContactStances}

\* {Left, Right} without the keys of the empty lists
Sparse(l, r) ==
    [k \in {f \in Feet : (IF f = "Left" THEN l ELSE r) # <<>>} |->
        IF k = "Left" THEN l ELSE r]

EventsPayloads ==
    LET pairs == ListPairs(FootEventSet("Left"), FootEventSet("Right"), MaxEvents)
    IN {[isArray |-> FALSE, object |-> [Left |-> p[1], Right |-> p[2]]] : p \in pairs}
       \cup {[isArray |-> FALSE, object |-> Sparse(p[1], p[2])] : p \in pairs}
       \cup {[isArray |-> TRUE, items |-> <<[Left |-> p[1], Right |-> p[2]]>>] : p \in pairs}
       \cup {[isArray |-> FALSE, object |-> ThreeContactEvents]}

\* The stance-metrics files: the delivery's ball, or only another ball
StanceFiles ==
    {[balls |-> <<[ball_id |-> SelectedDelivery.ball_id, stance_metrics |-> sm]>>] :
        sm \in BallStanceInputs}
    \cup {[balls |-> <<OtherBall>>]}

EventsFiles ==
    {[balls |-> <<[ball_id |-> SelectedDelivery.ball_id, events |-> ev]>>] :
        ev \in EventsPayloads}
    \cup {[balls |-> <<>>]}

(***************************************************************************)
(* Frames explored: the point under the playback cursor and the centroids. *)
(***************************************************************************)
SensorChannels == {"S1", "S2", "S3", "S4", "S5", "S6", "S7", "S8"}
\* A channel of the sample that no region is configured with
SpareChannel == "S9"

\* Samples that carry any subset of the channels
SensorRecords(channels, magnitudes) ==
    UNION {[present -> magnitudes] : present \in SUBSET channels}

HeatmapSensors == SensorRecords(SensorChannels \cup {SpareChannel}, {0, 3})

CopChannels == {"S1", "S2", "S3"}
CopSensors == SensorRecords(CopChannels, {0, 10, 30})
CentroidMaps ==
    SensorRecords(CopChannels, {[x |-> 0, y |-> 0], [x |-> 10, y |-> 0], [x |-> 4, y |-> 7]})

FramePoint(sensors) == [t_ms |-> 0, x |-> 0, y |-> 0, sumW |-> 0, sensors |-> sensors]
\* The playback clock on the sample, and in the flight after it
FrameTimes == {0, 30}
\* The other foot's series of the chart
RightSample == [t_ms |-> 5, x |-> 0, y |-> 0, sumW |-> 4, sensors |-> [S2 |-> 1, S6 |-> 3]]

FrameIdle ==
    /\ leftFootData = <<>>
    /\ rightFootData = <<>>
    /\ viewMode = "heatmap"
    /\ currentTime = 0
    /\ point = Null
    /\ sensorCentroids = [k \in {} |-> [x |-> 0, y |-> 0]]
    /\ leftPathsRef = <<>>
    /\ regionValues = NeutralRegions
    /\ cop = Null
    /\ copDot = HiddenDot
    /\ regionalData = NoChart

(***************************************************************************)
(* The delivery view: mount with the loaded documents, then render.        *)
(***************************************************************************)
Init ==
    /\ delivery = SelectedDelivery
    /\ stanceMetrics \in StanceFiles
    /\ eventsFile \in EventsFiles
    /\ timeline = EmptyTimeline
    /\ pc = "mounted"
    /\ FrameIdle
    /\ view = "delivery-detail"
    /\ ClockIdle
    /\ AppLoaded
    /\ SvgIdle

\* The first render evaluates the timeline memo.
Render ==
    /\ pc = "mounted"
    /\ timeline' = TimelineMemo(ballStanceData, ballEvents)
    /\ pc' = "rendered"
    /\ UNCHANGED <<appVars, svgVars, delivery, stanceMetrics, eventsFile, frameVars, clockVars>>

Next == Render

Spec == Init /\ [][Next]_vars

(***************************************************************************)
(* One frame of the heatmap, and the regional chart of the same series.    *)
(***************************************************************************)
InitFrame ==
    /\ delivery = SelectedDelivery
    /\ stanceMetrics = [balls |-> <<>>]
    /\ eventsFile = [balls |-> <<>>]
    /\ timeline = EmptyTimeline
    /\ pc = "idle"
    /\ \/ /\ viewMode = "heatmap"
          /\ leftFootData \in {<<>>} \cup {<<FramePoint(s)>> : s \in HeatmapSensors}
          /\ sensorCentroids = [k \in CopChannels |-> [x |-> 4, y |-> 7]]
       \/ /\ viewMode = "cop"
          /\ leftFootData \in {<<>>} \cup {<<FramePoint(s)>> : s \in CopSensors}
          /\ sensorCentroids \in CentroidMaps
    /\ currentTime \in FrameTimes
    /\ point = Null
    /\ leftPathsRef = PathsOf(SoleUrl("Left", viewMode))
    /\ rightFootData \in {<<>>, <<RightSample>>}
    /\ regionValues = NeutralRegions
    /\ cop = Null
    /\ copDot = HiddenDot
    /\ regionalData = NoChart
    /\ view = "delivery-detail"
    /\ ClockIdle
    /\ AppLoaded
    /\ svgLoads = <<>>
    /\ installed = [foot \in {"Left", "Right"} |-> SoleUrl(foot, viewMode)]
    /\ centroidState = [foot \in {"Left", "Right"} |-> "rewritten"]
    /\ effectMode = viewMode

\* The effects of the last commit run: the animation loop if its dependencies
\* changed, and the visualization effect, which draws the frame.
DrawFrame ==
    /\ pc = "idle" \/ ~IsNull(pendingEffect)
    /\ animationFrame' = Flushed(animationFrame)
    /\ pendingEffect' = Null
    /\ IF pc = "idle" THEN VisualizationEffect /\ pc' = "drawn"
       ELSE UNCHANGED <<point, regionValues, cop, copDot, pc>>
    /\ lastOp' = IF pc = "idle" /\ Len(leftPathsRef) > 0 THEN Op("draw", 0, playbackSpeed)
                 ELSE lastOp
    /\ UNCHANGED <<appVars, svgVars, deliveryVars, leftFootData, rightFootData, viewMode, currentTime,
                   sensorCentroids, leftPathsRef, regionalData, view, isPlaying,
                   playbackSpeed, maxTime, orphanFrame>>

\* RegionalPressureTimeline renders its memo.
RenderChart ==
    /\ ~regionalData.rendered
    /\ regionalData' =
          [rendered |-> TRUE, datasets |-> regionalDatasets(leftFootData, rightFootData)]
    /\ UNCHANGED <<appVars, svgVars, deliveryVars, leftFootData, rightFootData, viewMode, currentTime, point,
                   sensorCentroids, leftPathsRef, regionValues, cop, copDot, pc, clockVars>>

NextFrame == DrawFrame \/ RenderChart

SpecFrame == InitFrame /\ [][NextFrame]_vars

(***************************************************************************)
(* A delivery is opened, its sole SVG loads, the cursor is scrubbed and    *)
(* the frame under the cursor is drawn.                                    *)
(***************************************************************************)
SampleTimes == {0, 25, 100, 200}
AscendingTimes(n) ==
    {ts \in SeqsUpTo(SampleTimes, n) : \A i \in 1..(Len(ts) - 1) : ts[i] <= ts[i + 1]}
SeriesOf(ts) == [i \in DOMAIN ts |-> Pt(ts[i], i)]
LeftSeries == {SeriesOf(ts) : ts \in AscendingTimes(MaxSamples)}
RightSeries == {<<>>, <<Pt(0, 7)>>, <<Pt(300, 7)>>}

\* One stance per foot, both in contact from the delivery's zero on
SeriesStanceFile(left, right) ==
    [balls |-> <<[ball_id |-> SelectedDelivery.ball_id,
                  stance_metrics |->
                      [Left |-> <<Stance(1, "Left", "RUNUP_LAST", left)>>,
                       Right |-> <<Stance(2, "Right", "RUNUP_LAST", right)>>]]>>]
SeriesEventsFile ==
    [balls |-> <<[ball_id |-> SelectedDelivery.ball_id,
                  events |-> [isArray |-> FALSE,
                              object |-> [Left |-> <<Event(1, "Left", <<1000, 1040>>)>>,
                                          Right |-> <<Event(2, "Right", <<1000, 1040>>)>>]]]>>]

\* Slider positions the cursor is scrubbed to
ResolveTargets == {0, 20, 40, 50, 80, 130, 210, 230, 250, 260, 300}
SoleCentroids == [k \in CopChannels |-> [x |-> 4, y |-> 7]]

InitResolve ==
    /\ delivery = Null
    /\ view = "session"
    /\ stanceMetrics \in {SeriesStanceFile(l, r) : l \in LeftSeries, r \in RightSeries}
    /\ eventsFile = SeriesEventsFile
    /\ timeline = EmptyTimeline
    /\ pc = "drawn"
    /\ FrameIdle
    /\ ClockIdle
    /\ AppLoaded
    /\ SvgIdle

NextResolve ==
    \/ handleSelectDelivery(SelectedDelivery)
    \/ SvgLoaded(SoleCentroids)
    \/ \E value \in ResolveTargets : Scrub(value)
    \/ DrawFrame

SpecResolve == InitResolve /\ [][NextResolve]_vars

(***************************************************************************)
(* The playback clock of a session with two deliveries: the user opens and *)
(* leaves deliveries and works the controls while animation frames and     *)
(* effects run in between.                                                 *)
(***************************************************************************)
ClockDeliveries == {[ball_id |-> 1], [ball_id |-> 2]}

\* Ball 1 ends at 100 ms on its timeline, ball 2 at 60 ms
ClockStanceFile ==
    [balls |->
        <<[ball_id |-> 1,
           stance_metrics |->
               [Left |-> <<Stance(1, "Left", "BFC", <<Pt(0, 1), Pt(40, 2)>>)>>,
                Right |-> <<Stance(2, "Right", "FFC", <<Pt(0, 3), Pt(60, 4)>>)>>]],
          [ball_id |-> 2,
           stance_metrics |->
               [Left |-> <<Stance(1, "Left", "BFC", <<Pt(0, 5), Pt(60, 6)>>)>>,
                Right |-> <<>>]]>>]
ClockEventsFile ==
    [balls |->
        <<[ball_id |-> 1,
           events |-> [isArray |-> FALSE,
                       object |-> [Left |-> <<Event(1, "Left", <<1000, 1040>>)>>,
                                   Right |-> <<Event(2, "Right", <<1040, 1100>>)>>]]],
          [ball_id |-> 2,
           events |-> [isArray |-> FALSE,
                       object |-> [Left |-> <<Event(1, "Left", <<1000, 1060>>)>>,
                                   Right |-> <<>>]]]>>]

\* Milliseconds between two animation frames
Elapsed == {20, 60}
\* timestamp - performance.now() of an effect's first callback: the frame's timestamp
\* is taken when the frame begins, which can be before the effect ran
EarlyFrame == {0 - 10}
ViewModes == {"heatmap", "cop"}

InitClock ==
    /\ delivery = Null
    /\ view = "session"
    /\ stanceMetrics = ClockStanceFile
    /\ eventsFile = ClockEventsFile
    /\ timeline = EmptyTimeline
    /\ pc = "drawn"
    /\ FrameIdle
    /\ ClockIdle
    /\ AppLoaded
    /\ SvgIdle

NextClock ==
    \/ \E d \in ClockDeliveries : handleSelectDelivery(d)
    \/ handleBackToGallery
    \/ TogglePlay
    \/ Reset
    \/ \E value \in SliderValues(maxTime) : Scrub(value)
    \/ \E speed \in Speeds : SetSpeed(speed)
    \/ \E mode \in ViewModes : SetViewMode(mode)
    \/ \E deltaTime \in Elapsed \cup EarlyFrame : animate(deltaTime)
    \/ DrawFrame
    \/ OrphanTick
    \/ OrphanCleanup

SpecClock == InitClock /\ [][NextClock]_vars

(***************************************************************************)
(* App: the load effect.  Promise.all of the three fetches: the first one  *)
(* that fails rejects it and the catch handler sets the error; when all    *)
(* three have answered ok the then handler sets the three documents.       *)
(***************************************************************************)
Documents == {"report", "stance", "events"}
\* throw new Error('Failed to load ...') for !res.ok, and a fetch that rejects
HttpError(doc) ==
    CASE doc = "report" -> "Failed to load pressure report"
      [] doc = "stance" -> "Failed to load stance metrics"
      [] doc = "events" -> "Failed to load events data"
FetchOutcomes(doc) == {"ok", HttpError(doc), "Failed to fetch"}
Failed(outcome) == outcome # "pending" /\ outcome # "ok"
\* err.message as the error state holds it
ErrorOf(message) == [message |-> message]

\* Mutant: a failure of the events fetch is swallowed and the document reads as null
FetchSettles_EventsOptional(doc, outcome) ==
    /\ fetches[doc] = "pending"
    /\ outcome \in FetchOutcomes(doc)
    /\ fetches' = [fetches EXCEPT ![doc] = outcome]
    /\ IF Failed(outcome) /\ doc # "events"
       THEN /\ IF \E d \in Documents \ {"events"} : Failed(fetches[d])
               THEN UNCHANGED <<error, loading>>
               ELSE error' = ErrorOf(outcome) /\ loading' = FALSE
            /\ UNCHANGED <<report, stanceMetrics, eventsFile>>
       ELSE IF \A d \in Documents : fetches'[d] # "pending"
               /\ \A e \in Documents \ {"events"} : fetches'[e] = "ok"
            THEN /\ report' = LoadedReport
                 /\ stanceMetrics' = ClockStanceFile
                 /\ eventsFile' = IF fetches'["events"] = "ok" THEN ClockEventsFile ELSE Null
                 /\ loading' = FALSE
                 /\ UNCHANGED error
            ELSE UNCHANGED <<error, loading, report, stanceMetrics, eventsFile>>
    /\ UNCHANGED <<delivery, timeline, frameVars, pc, clockVars, svgVars>>

\* One of the three fetch chains settles: res.ok and res.json() gave the document,
\* or the chain threw
FetchSettles(doc, outcome) ==
    /\ fetches[doc] = "pending"
    /\ outcome \in FetchOutcomes(doc)
    /\ fetches' = [fetches EXCEPT ![doc] = outcome]
    /\ IF Failed(outcome)
       THEN /\ IF \E d \in Documents : Failed(fetches[d])
               THEN UNCHANGED <<error, loading>>
               ELSE error' = ErrorOf(outcome) /\ loading' = FALSE
            /\ UNCHANGED <<report, stanceMetrics, eventsFile>>
       ELSE IF \A d \in Documents : fetches'[d] = "ok"
            THEN /\ report' = LoadedReport
                 /\ stanceMetrics' = ClockStanceFile
                 /\ eventsFile' = ClockEventsFile
                 /\ loading' = FALSE
                 /\ UNCHANGED error
            ELSE UNCHANGED <<error, loading, report, stanceMetrics, eventsFile>>
    /\ UNCHANGED <<delivery, timeline, frameVars, pc, clockVars, svgVars>>

(***************************************************************************)
(* The session from its start: the documents are fetched, and where they   *)
(* arrive the user opens deliveries and works the heatmap.                 *)
(***************************************************************************)
InitLoad ==
    /\ loading = TRUE
    /\ error = Null
    /\ report = Null
    /\ fetches = [doc \in Documents |-> "pending"]
    /\ stanceMetrics = Null
    /\ eventsFile = Null
    /\ delivery = Null
    /\ view = "session"
    /\ timeline = EmptyTimeline
    /\ pc = "drawn"
    /\ FrameIdle
    /\ ClockIdle
    /\ SvgIdle

NextLoad ==
    \/ \E doc \in Documents : \E outcome \in FetchOutcomes(doc) : FetchSettles(doc, outcome)
    \/ \E d \in ClockDeliveries : handleSelectDelivery(d)
    \/ handleBackToGallery
    \/ TogglePlay
    \/ \E mode \in ViewModes : SetViewMode(mode)
    \/ DrawFrame

SpecLoad == InitLoad /\ [][NextLoad]_vars

(***************************************************************************)
(* The SVG loads of the delivery view: the user opens deliveries and       *)
(* switches the view mode, the SVG effect runs after each commit that      *)
(* changed viewMode, and the fetches of the calls in flight answer in any  *)
(* order.                                                                  *)
(***************************************************************************)
InitSvg ==
    /\ delivery = Null
    /\ view = "session"
    /\ stanceMetrics = ClockStanceFile
    /\ eventsFile = ClockEventsFile
    /\ timeline = EmptyTimeline
    /\ pc = "drawn"
    /\ FrameIdle
    /\ ClockIdle
    /\ AppLoaded
    /\ SvgIdle

\* A click on a view-mode button: the effect of the commit before it has run
ViewModeClick ==
    /\ effectMode = viewMode
    /\ Len(svgLoads) < MaxLoads
    /\ \E mode \in ViewModes : SetViewMode(mode)

NextSvg ==
    \/ \E d \in ClockDeliveries : handleSelectDelivery(d)
    \/ handleBackToGallery
    \/ ViewModeClick
    \/ loadCentroids
    \/ \E n \in 1..MaxLoads : SvgFetched(n, SoleCentroids)

SpecSvg == InitSvg /\ [][NextSvg]_vars

(***************************************************************************)
(* Playback left to itself: the user has just pressed Play on an open      *)
(* delivery, at some cursor, speed and mode, and from then on only         *)
(* animation frames and effects run.  The browser calls the callback of a  *)
(* frame that stays requested, and React runs the effects of a commit.     *)
(***************************************************************************)
InitPlayback ==
    /\ delivery \in ClockDeliveries
    /\ view = "delivery-detail"
    /\ stanceMetrics = ClockStanceFile
    /\ eventsFile = ClockEventsFile
    /\ timeline = TimelineMemo(ballStanceData, ballEvents)
    /\ leftFootData = timeline.leftData
    /\ rightFootData = timeline.rightData
    /\ maxTime = maxTimeMemo(leftFootData, rightFootData)
    /\ currentTime \in SliderValues(maxTime)
    /\ isPlaying = TRUE
    /\ playbackSpeed \in Speeds
    /\ viewMode \in ViewModes
    /\ animationFrame = Null
    /\ pendingEffect = [isPlaying |-> TRUE, playbackSpeed |-> playbackSpeed, maxTime |-> maxTime]
    /\ orphanFrame = FALSE
    /\ lastOp = [op |-> "play", value |-> 0, speed |-> playbackSpeed, prev |-> "none",
                 before |-> [isPlaying |-> FALSE, currentTime |-> currentTime,
                             playbackSpeed |-> playbackSpeed, viewMode |-> viewMode]]
    /\ pc = "drawn"
    /\ point = Null
    /\ sensorCentroids = [k \in {} |-> [x |-> 0, y |-> 0]]
    /\ leftPathsRef = <<>>
    /\ regionValues = NeutralRegions
    /\ cop = Null
    /\ copDot = HiddenDot
    /\ regionalData = NoChart
    /\ AppLoaded
    /\ SvgIdle

Tick == \E deltaTime \in Elapsed : animate(deltaTime)

NextPlayback == Tick \/ DrawFrame

SpecPlayback ==
    InitPlayback /\ [][NextPlayback]_vars /\ WF_vars(Tick) /\ WF_vars(DrawFrame)

(***************************************************************************)
(* What the claims speak about, read off the documents themselves.         *)
(***************************************************************************)
Rendered == pc = "rendered"
HasRecords == ~IsUndefined(ballStanceData) /\ ~IsUndefined(ballEvents)

FootStances(foot) == ballStanceData.stance_metrics[foot]
AllStances == FootStances("Left") \o FootStances("Right")
FootData(foot) == IF foot = "Left" THEN timeline.leftData ELSE timeline.rightData

\* The feed of contact events: the Left list followed by the Right list
Feed ==
    LET ev == ballEvents.events
        objs == IF ev.isArray THEN ev.items ELSE <<ev.object>>
        Of(key) == IF objs = <<>> \/ key \notin DOMAIN objs[1] THEN <<>> ELSE objs[1][key]
    IN Of("Left") \o Of("Right")
FeedIds == {Feed[i].stance_id : i \in DOMAIN Feed}
\* The event the index holds for a stance_id: the last one of the feed
Indexed(id) == Feed[MaxOf({i \in DOMAIN Feed : Feed[i].stance_id = id})]
IndexedEvents == {Indexed(id) : id \in FeedIds}
Matched(stance) == stance.stance_id \in FeedIds

IsSorted(points) == \A i, j \in DOMAIN points : i < j => points[i].t_ms <= points[j].t_ms
Times(points) == [i \in DOMAIN points |-> points[i].t_ms]

RECURSIVE SumLen(_)
SumLen(stances) ==
    IF stances = <<>> THEN 0
    ELSE Len(Head(stances).cop_trajectory) + SumLen(Tail(stances))

(***************************************************************************)
(* C1 (as stated): the global zero is the minimum ic_ts_ms over the events *)
(* that some stance of the delivery references, and 0 without events.      *)
(* The code takes the minimum over the whole event index instead.          *)
(***************************************************************************)
\* The events the stances of the delivery look up in the index
ReferencedEvents ==
    {Indexed(AllStances[n].stance_id) :
        n \in {k \in DOMAIN AllStances : Matched(AllStances[k])}}

C1_ZeroOverReferencedEvents ==
    (Rendered /\ HasRecords) =>
        /\ ReferencedEvents # {} =>
              timeline.minTime = MinOf({e.ic_ts_ms : e \in ReferencedEvents})
        /\ Feed = <<>> => timeline.minTime = 0

(***************************************************************************)
(* C1 (amended): the global zero is the minimum ic_ts_ms over the events   *)
(* of the event index (per stance_id the last event of the feed), whether  *)
(* or not a stance references them, and 0 when there are no events.        *)
(***************************************************************************)
C1_ZeroOverEventIndex ==
    (Rendered /\ HasRecords) =>
        timeline.minTime =
            IF IndexedEvents = {} THEN 0
            ELSE MinOf({e.ic_ts_ms : e \in IndexedEvents})

\* An event no stance references holds the earliest contact, and sets the zero.
C1_Witness ==
    /\ Rendered /\ HasRecords
    /\ AllStances # <<>>
    /\ \E e \in IndexedEvents :
          /\ e \notin ReferencedEvents
          /\ \A o \in ReferencedEvents : e.ic_ts_ms < o.ic_ts_ms
          /\ ReferencedEvents # {}
          /\ timeline.minTime = e.ic_ts_ms

(***************************************************************************)
(* C2: every sample of a stance with an event in the index appears in its  *)
(* foot's series at t_ms + (event.ic_ts_ms - globalZero), its other fields *)
(* unchanged.                                                              *)
(***************************************************************************)
C2_OffsetCorrectness ==
    (Rendered /\ HasRecords) =>
        \A foot \in Feet : \A n \in DOMAIN FootStances(foot) :
            LET stance == FootStances(foot)[n]
            IN Matched(stance) =>
                \A k \in DOMAIN stance.cop_trajectory :
                    LET pt == stance.cop_trajectory[k]
                        event == Indexed(stance.stance_id)
                    IN \E i \in DOMAIN FootData(foot) :
                          FootData(foot)[i] =
                              [t_ms |-> pt.t_ms + (event.ic_ts_ms - timeline.minTime),
                               x |-> pt.x, y |-> pt.y, sumW |-> pt.sumW,
                               sensors |-> pt.sensors]

\* Local times 0, 5, 10 of a stance that starts at 1200, zero at 1000: 200, 205, 210
C2_Witness ==
    /\ Rendered /\ HasRecords
    /\ timeline.minTime = 1000
    /\ Len(FootStances("Left")) = 1
    /\ Times(FootStances("Left")[1].cop_trajectory) = <<0, 5, 10>>
    /\ Matched(FootStances("Left")[1])
    /\ Indexed(FootStances("Left")[1].stance_id).ic_ts_ms = 1200
    /\ Times(timeline.leftData) = <<200, 205, 210>>

(***************************************************************************)
(* C3: both aligned series are non-decreasing in t_ms, whatever the order  *)
(* of the stances.                                                         *)
(***************************************************************************)
C3_Monotonic ==
    Rendered => IsSorted(timeline.leftData) /\ IsSorted(timeline.rightData)

\* Two stances listed latest first, their time ranges overlapping
C3_Witness ==
    /\ Rendered /\ HasRecords
    /\ Len(FootStances("Left")) = 2
    /\ \A n \in {1, 2} : Matched(FootStances("Left")[n])
    /\ Indexed(FootStances("Left")[1].stance_id).ic_ts_ms
          > Indexed(FootStances("Left")[2].stance_id).ic_ts_ms
    /\ Times(timeline.leftData) = <<0, 200, 205, 210, 300>>

(***************************************************************************)
(* C4: a stance without an event in the index contributes no sample, and   *)
(* the series are those of the delivery without the unmatched stances.     *)
(***************************************************************************)
WithoutUnmatched(sd) ==
    [sd EXCEPT !.stance_metrics =
        [foot \in Feet |-> SelectSeq(sd.stance_metrics[foot], Matched)]]

C4_DropOnMissing ==
    (Rendered /\ HasRecords) =>
        /\ \A foot \in Feet :
              Len(FootData(foot)) = SumLen(SelectSeq(FootStances(foot), Matched))
        /\ timeline.leftData = TimelineMemo(WithoutUnmatched(ballStanceData), ballEvents).leftData
        /\ timeline.rightData = TimelineMemo(WithoutUnmatched(ballStanceData), ballEvents).rightData
        /\ ~timeline.threw

\* An unmatched stance with samples beside a matched one
C4_Witness ==
    /\ Rendered /\ HasRecords
    /\ Len(FootStances("Left")) = 2
    /\ ~Matched(FootStances("Left")[1])
    /\ FootStances("Left")[1].cop_trajectory # <<>>
    /\ Matched(FootStances("Left")[2])
    /\ Len(timeline.leftData) = Len(FootStances("Left")[2].cop_trajectory)
    /\ timeline.leftData # <<>>

(***************************************************************************)
(* C5: without a stance record, without an events record, with empty       *)
(* stance lists or with empty event lists the series are empty and the     *)
(* memo does not throw.                                                    *)
(***************************************************************************)
C5_EmptyInputEmptySeries ==
    Rendered =>
        /\ (IsUndefined(ballStanceData) \/ IsUndefined(ballEvents)) =>
              timeline.leftData = <<>> /\ timeline.rightData = <<>> /\ ~timeline.threw
        /\ HasRecords =>
              /\ \A foot \in Feet : FootStances(foot) = <<>> => FootData(foot) = <<>>
              /\ Feed = <<>> => timeline.leftData = <<>> /\ timeline.rightData = <<>>
              /\ (AllStances = <<>> \/ Feed = <<>>) => ~timeline.threw

\* Stances with samples, and no events record for the ball
C5_Witness ==
    /\ Rendered
    /\ ~IsUndefined(ballStanceData) /\ IsUndefined(ballEvents)
    /\ SumLen(AllStances) > 0
    /\ timeline.leftData = <<>> /\ timeline.rightData = <<>> /\ ~timeline.threw

(***************************************************************************)
(* Phase markers.                                                          *)
(***************************************************************************)
MarkedPhases == {"BFC", "FFC"}
MarkersNamed(phase) ==
    {i \in DOMAIN timeline.phaseMarkers : timeline.phaseMarkers[i].name = phase}
Tagged(phase) == {n \in DOMAIN AllStances : AllStances[n].phase = phase}
TaggedMatched(phase) == {n \in Tagged(phase) : Matched(AllStances[n])}
\* The contact window of a matched stance on the delivery's time axis
WindowStart(n) == Indexed(AllStances[n].stance_id).ic_ts_ms - timeline.minTime
WindowEnd(n) == Indexed(AllStances[n].stance_id).to_ts_ms - timeline.minTime

(***************************************************************************)
(* C6: the marker of a phase starts at the least (event.ic_ts_ms - zero)   *)
(* and ends at the greatest (event.to_ts_ms - zero) over the stances       *)
(* tagged with the phase and their matching events.  The code lets a       *)
(* tagged stance without an event count as a window [0 - zero, 0 - zero].  *)
(***************************************************************************)
C6_MarkerBounds ==
    (Rendered /\ HasRecords) =>
        \A phase \in MarkedPhases : \A i \in MarkersNamed(phase) :
            TaggedMatched(phase) # {} =>
                /\ timeline.phaseMarkers[i].start =
                      MinOf({WindowStart(n) : n \in TaggedMatched(phase)})
                /\ timeline.phaseMarkers[i].end =
                      MaxOf({WindowEnd(n) : n \in TaggedMatched(phase)})

\* The same bounds where every tagged stance has its event: these the code computes.
C6_MarkerBoundsAllMatched ==
    (Rendered /\ HasRecords) =>
        \A phase \in MarkedPhases : \A i \in MarkersNamed(phase) :
            (TaggedMatched(phase) # {} /\ TaggedMatched(phase) = Tagged(phase)) =>
                /\ timeline.phaseMarkers[i].start =
                      MinOf({WindowStart(n) : n \in TaggedMatched(phase)})
                /\ timeline.phaseMarkers[i].end =
                      MaxOf({WindowEnd(n) : n \in TaggedMatched(phase)})

\* Two FFC stances with windows [50,90] and [70,110]: one marker {start: 50, end: 110}
C6_ExampleReached ==
    /\ Rendered /\ HasRecords
    /\ {<<WindowStart(n), WindowEnd(n)>> : n \in TaggedMatched("FFC")} = {<<50, 90>>, <<70, 110>>}
    /\ Tagged("FFC") = TaggedMatched("FFC")
    /\ \E i \in MarkersNamed("FFC") :
          timeline.phaseMarkers[i].start = 50 /\ timeline.phaseMarkers[i].end = 110

(***************************************************************************)
(* C7 (as stated): a marker of a phase is emitted exactly when some stance *)
(* of either foot is tagged with the phase.  Without an events record the  *)
(* memo returns no marker at all.                                          *)
(***************************************************************************)
TaggedInDelivery(phase) ==
    /\ ~IsUndefined(ballStanceData)
    /\ \E n \in DOMAIN AllStances : AllStances[n].phase = phase

C7_MarkerIffTagged ==
    Rendered =>
        \A phase \in MarkedPhases :
            /\ MarkersNamed(phase) # {} <=> TaggedInDelivery(phase)
            /\ Cardinality(MarkersNamed(phase)) <= 1

(***************************************************************************)
(* C7 (amended): for a delivery with a stance record and an events record, *)
(* exactly one marker of a phase is emitted when some stance of either     *)
(* foot is tagged with it and none otherwise; a delivery that lacks either *)
(* record gets no marker.                                                  *)
(***************************************************************************)
C7_MarkerIffTaggedWithRecords ==
    Rendered =>
        /\ HasRecords =>
              \A phase \in MarkedPhases :
                  /\ MarkersNamed(phase) # {} <=> Tagged(phase) # {}
                  /\ Cardinality(MarkersNamed(phase)) <= 1
        /\ ~HasRecords => timeline.phaseMarkers = <<>>
        /\ \A i \in DOMAIN timeline.phaseMarkers :
              timeline.phaseMarkers[i].name \in MarkedPhases

\* BFC on the Right foot only, no FFC stance: the one marker is BFC's
C7_Witness ==
    /\ Rendered /\ HasRecords
    /\ \A n \in DOMAIN FootStances("Left") : FootStances("Left")[n].phase = "RUNUP_LAST"
    /\ \E n \in DOMAIN FootStances("Right") : FootStances("Right")[n].phase = "BFC"
    /\ Tagged("FFC") = {}
    /\ Len(timeline.phaseMarkers) = 1
    /\ timeline.phaseMarkers[1].name = "BFC"

(***************************************************************************)
(* Frames: what the claims speak about.                                    *)
(***************************************************************************)
Drawn == pc = "drawn"
HeatmapFrame == Drawn /\ viewMode = "heatmap" /\ ~IsNull(point)
CopFrame == Drawn /\ viewMode = "cop" /\ ~IsNull(point)

\* The channels each region is configured with
ConfiguredChannels(region) ==
    CASE region = "ForeFoot" -> {"S1", "S2"}
      [] region = "UpperMid" -> {"S3", "S4", "S5"}
      [] region = "LowerMid" -> {"S6"}
      [] region = "Heel" -> {"S7", "S8"}
RegionNames == {"ForeFoot", "UpperMid", "LowerMid", "Heel"}

\* The sum of term[c] over a finite set of channels
RECURSIVE SumOver(_, _)
SumOver(channels, term) ==
    IF channels = {} THEN 0
    ELSE LET c == CHOOSE c \in channels : TRUE
         IN term[c] + SumOver(channels \ {c}, term)

\* The magnitude of a channel in a sample, 0 for a channel the sample lacks
Magnitude(sensors, c) == IF c \in DOMAIN sensors THEN sensors[c] ELSE 0
RegionSum(sensors, region) ==
    SumOver(ConfiguredChannels(region),
            [c \in ConfiguredChannels(region) |-> Magnitude(sensors, c)])

\* The sample with channel c added or changed to v
WithChannel(sensors, c, v) ==
    [k \in (DOMAIN sensors) \cup {c} |-> IF k = c THEN v ELSE sensors[k]]
\* The point with other sensors
WithSensors(pt, sensors) == [pt EXCEPT !.sensors = sensors]
OtherMagnitudes == {0, 7}

(***************************************************************************)
(* C8: a region's value is the sum of exactly its configured channels, a   *)
(* channel the sample lacks counts 0, a channel the region is not          *)
(* configured with leaves the value as it is, and non-negative magnitudes  *)
(* give a non-negative value; in the heatmap frame and in the chart.       *)
(***************************************************************************)
C8_RegionSumsConfiguredChannels ==
    /\ HeatmapFrame =>
          /\ ~regionValues.neutral
          /\ DOMAIN regionValues.values = RegionNames
          /\ \A region \in RegionNames :
                /\ regionValues.values[region] = RegionSum(point.sensors, region)
                /\ \A c \in (SensorChannels \cup {SpareChannel}) \ ConfiguredChannels(region) :
                      \A v \in OtherMagnitudes :
                          RegionValueOf(WithChannel(point.sensors, c, v), region)
                              = regionValues.values[region]
                /\ (\A c \in DOMAIN point.sensors : point.sensors[c] >= 0)
                      => regionValues.values[region] >= 0
    /\ (regionalData.rendered /\ leftFootData # <<>>) =>
          /\ DOMAIN regionalData.datasets = RegionNames
          /\ \A region \in RegionNames :
                /\ \E i \in DOMAIN regionalData.datasets[region] :
                      /\ regionalData.datasets[region][i].time = leftFootData[1].t_ms
                      /\ regionalData.datasets[region][i].Left
                            = RegionSum(leftFootData[1].sensors, region)
                /\ \A i \in DOMAIN rightFootData :
                      \E k \in DOMAIN regionalData.datasets[region] :
                          /\ regionalData.datasets[region][k].time = rightFootData[i].t_ms
                          /\ regionalData.datasets[region][k].Right
                                = RegionSum(rightFootData[i].sensors, region)
                /\ \A c \in (SensorChannels \cup {SpareChannel}) \ ConfiguredChannels(region) :
                      \A v \in OtherMagnitudes :
                          \E i \in DOMAIN regionalData.datasets[region] :
                              /\ regionalData.datasets[region][i].time = leftFootData[1].t_ms
                              /\ regionalData.datasets[region][i].Left =
                                    ChartRegion(WithSensors(leftFootData[1],
                                                            WithChannel(leftFootData[1].sensors, c, v)),
                                                region)

\* S3, S4, S5 and the spare channel loaded, S6 missing: UpperMid 9, LowerMid 0
C8_Witness ==
    /\ HeatmapFrame /\ regionalData.rendered
    /\ DOMAIN point.sensors = {"S3", "S4", "S5", SpareChannel}
    /\ \A c \in DOMAIN point.sensors : point.sensors[c] = 3
    /\ regionValues.values = [ForeFoot |-> 0, UpperMid |-> 9, LowerMid |-> 0, Heel |-> 0]
    /\ regionalData.datasets["UpperMid"][1].Left = 9
    /\ rightFootData # <<>>

(***************************************************************************)
(* C9: calculateCoP returns null when every magnitude is zero and when no  *)
(* channel of positive magnitude has a centroid; it returns a result when  *)
(* some channel of positive magnitude has a centroid.                      *)
(***************************************************************************)
Positive == {c \in DOMAIN point.sensors : point.sensors[c] > 0}
Located == {c \in Positive : c \in DOMAIN sensorCentroids}

C9_NoContact ==
    CopFrame =>
        /\ (\A c \in DOMAIN point.sensors : point.sensors[c] = 0) => IsNull(cop)
        /\ Located = {} => IsNull(cop)
        /\ Located # {} => ~IsNull(cop)
        /\ copDot.opacity = IF IsNull(cop) THEN 0 ELSE 1

\* Loaded channels, none of them with a centroid: no contact
C9_Witness ==
    /\ CopFrame
    /\ Positive # {}
    /\ Located = {}
    /\ DOMAIN sensorCentroids # {}
    /\ IsNull(cop)

(***************************************************************************)
(* C10: a result of calculateCoP has force = the sum of the magnitudes of  *)
(* the positive channels with a centroid, and x * force (y * force) = the  *)
(* sum of centroid.x * magnitude (centroid.y * magnitude) over them.       *)
(***************************************************************************)
C10_ForceWeightedCentroid ==
    (CopFrame /\ ~IsNull(cop)) =>
        /\ cop.force = SumOver(Located, [c \in Located |-> point.sensors[c]])
        /\ cop.x.den > 0 /\ cop.y.den > 0
        /\ cop.x.num * cop.force
              = cop.x.den * SumOver(Located, [c \in Located |-> sensorCentroids[c].x * point.sensors[c]])
        /\ cop.y.num * cop.force
              = cop.y.den * SumOver(Located, [c \in Located |-> sensorCentroids[c].y * point.sensors[c]])

\* Centroids (0,0) with magnitude 10 and (10,0) with magnitude 30: x = 15/2, force 40
C10_Witness ==
    /\ CopFrame
    /\ Located = {"S1", "S2"}
    /\ sensorCentroids["S1"] = [x |-> 0, y |-> 0] /\ point.sensors["S1"] = 10
    /\ sensorCentroids["S2"] = [x |-> 10, y |-> 0] /\ point.sensors["S2"] = 30
    /\ ~IsNull(cop)
    /\ cop.x = [num |-> 15, den |-> 2]
    /\ cop.force = 40

(***************************************************************************)
(* The lookup of the frame under the cursor, in the claims' words.         *)
(***************************************************************************)
FrameDrawn == lastOp.op = "draw"
Distance(a, b) == IF a < b THEN b - a ELSE a - b
Qualifying == {i \in DOMAIN leftFootData : Distance(leftFootData[i].t_ms, currentTime) < 25}
OutsideWindow ==
    \/ currentTime < leftFootData[1].t_ms - 50
    \/ currentTime > leftFootData[Len(leftFootData)].t_ms + 50

(***************************************************************************)
(* C11: on an ascending series findClosestPoint returns null for an empty  *)
(* series and for a target more than 50 before the first or after the last *)
(* sample; otherwise the first sample in series order less than 25 from    *)
(* the target, or null if there is none.  For t = [0,100,200] the target   *)
(* 300 gives null and the target 210 gives the sample at 200.              *)
(***************************************************************************)
C11_ClosestPointContract ==
    FrameDrawn =>
        /\ IsSorted(leftFootData)
        /\ point = IF leftFootData = <<>> THEN Null
                   ELSE IF OutsideWindow THEN Null
                   ELSE IF Qualifying = {} THEN Null
                   ELSE leftFootData[MinOf(Qualifying)]
        /\ Times(leftFootData) = <<0, 100, 200>> =>
              /\ currentTime = 300 => IsNull(point)
              /\ currentTime = 210 => point = leftFootData[3]

\* The series [0,100,200] with the cursor at 210: the sample at 200 is drawn
C11_Witness ==
    /\ FrameDrawn
    /\ Times(leftFootData) = <<0, 100, 200>>
    /\ currentTime = 210
    /\ ~IsNull(point)
    /\ point.t_ms = 200

(***************************************************************************)
(* C12: a sample returned by findClosestPoint is the nearest one: no other *)
(* sample of the series is strictly closer to the target.                  *)
(***************************************************************************)
C12_ReturnsNearest ==
    (FrameDrawn /\ ~IsNull(point)) =>
        \A i \in DOMAIN leftFootData :
            Distance(leftFootData[i].t_ms, currentTime) >= Distance(point.t_ms, currentTime)

(***************************************************************************)
(* C20: maxTime is the maximum t_ms over the samples of both feet when     *)
(* there is a sample, and the fallback 2000 only when both series are      *)
(* empty.                                                                  *)
(***************************************************************************)
AllTimes ==
    {leftFootData[i].t_ms : i \in DOMAIN leftFootData}
    \cup {rightFootData[i].t_ms : i \in DOMAIN rightFootData}

C20_MaxTimeIsLatestSample ==
    (Mounted /\ lastOp.op = "select") =>
        maxTime = IF AllTimes = {} THEN 2000 ELSE MaxOf(AllTimes)

\* Where some sample lies after the delivery's zero, maxTime is the latest sample
C20_MaxTimeOfLaterSamples ==
    (Mounted /\ \E t \in AllTimes : t > 0) => maxTime = MaxOf(AllTimes)

\* No sample at all: the fallback
C20_FallbackWhenEmpty ==
    (Mounted /\ AllTimes = {}) => maxTime = 2000

(***************************************************************************)
(* The playback clock, in the claims' words.                               *)
(***************************************************************************)
Clock == [isPlaying |-> isPlaying, currentTime |-> currentTime,
          playbackSpeed |-> playbackSpeed, viewMode |-> viewMode]
Did(name) == lastOp.op = name
ResetOf(clock) == [clock EXCEPT !.isPlaying = FALSE, !.currentTime = 0]
Clamp(t, low, high) == IF t < low THEN low ELSE IF t > high THEN high ELSE t
\* What the tick that acted last added to the cursor it found
Advance == lastOp.before.currentTime + Scaled(lastOp.value, lastOp.speed)

(***************************************************************************)
(* C13: reset from any clock state gives Stopped with cursor 0 and the     *)
(* speed it found, and a reset of that state gives the same state again.   *)
(***************************************************************************)
C13_ResetIdempotent ==
    Did("reset") =>
        /\ ~isPlaying
        /\ currentTime = 0
        /\ Clock = ResetOf(lastOp.before)
        /\ ResetOf(Clock) = Clock
        /\ lastOp.prev = "reset" => Clock = lastOp.before

\* A second reset in a row, at a speed other than the initial one
C13_Witness ==
    /\ Did("reset")
    /\ lastOp.prev = "reset"
    /\ playbackSpeed = Double
    /\ ~isPlaying
    /\ currentTime = 0

\* A reset that found the clock Playing with the cursor under way
C13_ResetWhilePlaying ==
    /\ Did("reset")
    /\ lastOp.before.isPlaying
    /\ lastOp.before.currentTime > 0
    /\ ~isPlaying /\ currentTime = 0

(***************************************************************************)
(* C14: a scrub to t in any clock state, a frame being requested or not,   *)
(* leaves the clock Stopped with the cursor at clamp(t, 0, maxTime), and   *)
(* nothing but play makes a Stopped clock Playing, an animation callback   *)
(* that was in flight included.                                            *)
(***************************************************************************)
C14_ScrubStopsAutoplay ==
    /\ Did("scrub") =>
          /\ ~isPlaying
          /\ currentTime = Clamp(lastOp.value, 0, maxTime)
    /\ (Mounted /\ ~lastOp.before.isPlaying /\ ~Did("play")) => ~isPlaying

\* A scrub of a Playing clock whose next frame is still requested
C14_Witness ==
    /\ Did("scrub")
    /\ lastOp.before.isPlaying
    /\ ~IsNull(animationFrame)
    /\ ~isPlaying
    /\ currentTime = 30

\* The requested frame's callback ran after the scrub and the clock is still Stopped
C14_TickAfterScrub ==
    /\ Did("tick")
    /\ lastOp.prev = "scrub"
    /\ ~isPlaying

C16_SetSpeedFrame ==
    /\ Did("setSpeed") =>
          /\ Clock = [lastOp.before EXCEPT !.playbackSpeed = lastOp.speed]
    /\ (Did("tick") /\ Advance < maxTime) => currentTime = Advance
    /\ (Mounted /\ IsNull(pendingEffect) /\ ~IsNull(animationFrame)) =>
          animationFrame.playbackSpeed = playbackSpeed

\* The speed was doubled on a Playing clock with the cursor under way
C16_Witness ==
    /\ Did("setSpeed")
    /\ lastOp.before.isPlaying
    /\ lastOp.before.playbackSpeed = Normal
    /\ playbackSpeed = Double
    /\ isPlaying
    /\ currentTime = 20

\* The first tick requested at the doubled speed: 20 ms elapsed moved the cursor by 40
C16_TickAtNewSpeed ==
    /\ Did("tick")
    /\ lastOp.prev = "setSpeed"
    /\ lastOp.before.playbackSpeed = Double
    /\ lastOp.speed = Double
    /\ lastOp.value = 20
    /\ currentTime = lastOp.before.currentTime + 40

(***************************************************************************)
(* C17: a tick of a Playing clock sets the cursor to cursor + elapsed *    *)
(* speed if that is below maxTime, and otherwise stops the clock with the  *)
(* cursor at 0; the clock then stays at (Stopped, 0) until the user acts.  *)
(***************************************************************************)
C17_TickAdvancesOrRewinds ==
    /\ (Did("tick") /\ lastOp.before.isPlaying) =>
          IF Advance < maxTime THEN isPlaying /\ currentTime = Advance
          ELSE ~isPlaying /\ currentTime = 0
    /\ (Did("tick") /\ lastOp.prev = "tick"
          /\ ~lastOp.before.isPlaying /\ lastOp.before.currentTime = 0) =>
          ~isPlaying /\ currentTime = 0

\* The first part alone: what a tick does to a Playing clock
C17_TickOfPlayingClock ==
    (Did("tick") /\ lastOp.before.isPlaying) =>
        IF Advance < maxTime THEN isPlaying /\ currentTime = Advance
        ELSE ~isPlaying /\ currentTime = 0

\* A tick reached the end of the timeline, and the frame it requested is still requested
C17_EndReached ==
    /\ Did("tick")
    /\ lastOp.before.isPlaying
    /\ Advance >= maxTime
    /\ ~isPlaying /\ currentTime = 0
    /\ ~IsNull(animationFrame)

C19_SwitchStopsPlayback ==
    (Did("setViewMode") \/ Did("select")) => ~isPlaying

(***************************************************************************)
(* C19 as the code has it: a mode switch leaves the clock as it is, a      *)
(* Playing clock included; leaving a delivery unmounts its clock, and the  *)
(* delivery opened next starts Stopped at 0 with no frame requested, so    *)
(* that no callback of the delivery before acts on it.                     *)
(***************************************************************************)
C19_SwitchKeepsOrRemountsClock ==
    /\ Did("setViewMode") => Clock = [lastOp.before EXCEPT !.viewMode = viewMode]
    /\ Did("select") =>
          /\ ~isPlaying
          /\ currentTime = 0
          /\ IsNull(animationFrame)
          /\ IsNull(pendingEffect)
          /\ ~orphanFrame
    /\ Did("back") => ~Mounted /\ IsNull(animationFrame) /\ IsNull(pendingEffect)
    /\ Did("orphanTick") => ~Mounted /\ Clock = lastOp.before
    /\ orphanFrame => ~Mounted

\* The mode was switched to cop on a Playing clock with the cursor under way
C19_Witness ==
    /\ Did("setViewMode")
    /\ lastOp.before.viewMode = "heatmap"
    /\ viewMode = "cop"
    /\ isPlaying
    /\ currentTime > 0
    /\ ~IsNull(animationFrame)

\* A callback of the delivery that was left ran, and the next delivery was opened
C19_OpenedAfterOrphanTick ==
    /\ Did("select")
    /\ lastOp.prev = "orphanTick"
    /\ delivery.ball_id = 2

(***************************************************************************)
(* The event index, read off the feed.                                     *)
(***************************************************************************)
\* The positions of the feed that hold an event with this stance_id
FeedPositions(id) == {i \in DOMAIN Feed : Feed[i].stance_id = id}
DuplicatedIds == {id \in FeedIds : Cardinality(FeedPositions(id)) > 1}
\* The point a sample becomes when its stance is placed by this event
PlacedBy(pt, event) ==
    [t_ms |-> pt.t_ms + (event.ic_ts_ms - timeline.minTime),
     x |-> pt.x, y |-> pt.y, sumW |-> pt.sumW, sensors |-> pt.sensors]

(***************************************************************************)
(* C23: where the feed (the Left list followed by the Right list) holds    *)
(* two events with one stance_id, the index maps the stance_id to the      *)
(* later of them, the stances are placed by that event, and the memo does  *)
(* not fail.                                                               *)
(***************************************************************************)
C23_LastWriteWins ==
    (Rendered /\ HasRecords) =>
        /\ DOMAIN eventsMap(ballEvents) = FeedIds
        /\ \A id \in FeedIds :
              /\ MapGet(eventsMap(ballEvents), id) = Feed[MaxOf(FeedPositions(id))]
              /\ \A n \in DOMAIN AllStances :
                    AllStances[n].stance_id = id =>
                        \A k \in DOMAIN AllStances[n].cop_trajectory :
                            \E i \in DOMAIN (timeline.leftData \o timeline.rightData) :
                                (timeline.leftData \o timeline.rightData)[i] =
                                    PlacedBy(AllStances[n].cop_trajectory[k],
                                             Feed[MaxOf(FeedPositions(id))])
        /\ ~timeline.threw

\* The Left list holds stance_id 1 twice, contact at 1200 first and at 1000 after it:
\* the stance is placed by the later record, and the zero is that record's contact
C23_Witness ==
    /\ Rendered /\ HasRecords
    /\ ~ballEvents.events.isArray
    /\ Len(ListOrEmpty(ballEvents.events.object, "Left")) = 2
    /\ DuplicatedIds = {1}
    /\ Feed[1].ic_ts_ms = 1200 /\ Feed[2].ic_ts_ms = 1000
    /\ Len(FootStances("Left")) = 1
    /\ FootStances("Left")[1].stance_id = 1
    /\ Times(FootStances("Left")[1].cop_trajectory) = <<0, 5, 10>>
    /\ timeline.minTime = 1000
    /\ Times(timeline.leftData) = <<0, 5, 10>>

(***************************************************************************)
(* C24: a stance of a foot is placed by the event with its stance_id in    *)
(* that foot's own list, never by an event of the other foot, also where   *)
(* the two feet use the same stance_id.  The code keys the index by        *)
(* stance_id alone.                                                        *)
(***************************************************************************)
\* The events of one foot's own list, by the payload's shape
OwnFeed(foot) ==
    LET ev == ballEvents.events
        objs == IF ev.isArray THEN ev.items ELSE <<ev.object>>
    IN IF objs = <<>> \/ foot \notin DOMAIN objs[1] THEN <<>> ELSE objs[1][foot]
OwnPositions(foot, id) == {i \in DOMAIN OwnFeed(foot) : OwnFeed(foot)[i].stance_id = id}
HasOwnEvent(foot, stance) == OwnPositions(foot, stance.stance_id) # {}
OwnEvent(foot, stance) == OwnFeed(foot)[MaxOf(OwnPositions(foot, stance.stance_id))]
OtherFoot(foot) == IF foot = "Left" THEN "Right" ELSE "Left"
\* No stance_id is in both feet's lists
DisjointIds ==
    {OwnFeed("Left")[i].stance_id : i \in DOMAIN OwnFeed("Left")}
        \cap {OwnFeed("Right")[i].stance_id : i \in DOMAIN OwnFeed("Right")} = {}

C24_KeyedPerFoot ==
    (Rendered /\ HasRecords) =>
        \A foot \in Feet :
            /\ \A n \in DOMAIN FootStances(foot) :
                  LET stance == FootStances(foot)[n]
                  IN HasOwnEvent(foot, stance) =>
                        \A k \in DOMAIN stance.cop_trajectory :
                            \E i \in DOMAIN FootData(foot) :
                                FootData(foot)[i] =
                                    PlacedBy(stance.cop_trajectory[k], OwnEvent(foot, stance))
            /\ Len(FootData(foot)) =
                  SumLen(SelectSeq(FootStances(foot), LAMBDA st : HasOwnEvent(foot, st)))

\* The same where the two feet's lists share no stance_id and every stance's id is in
\* its own foot's list or in none: these the code places by the foot's own event
C24_KeyedPerFootDisjointIds ==
    (Rendered /\ HasRecords /\ DisjointIds
        /\ \A foot \in Feet : \A n \in DOMAIN FootStances(foot) :
              ~HasOwnEvent(OtherFoot(foot), FootStances(foot)[n])) =>
        \A foot \in Feet :
            /\ \A n \in DOMAIN FootStances(foot) :
                  LET stance == FootStances(foot)[n]
                  IN HasOwnEvent(foot, stance) =>
                        \A k \in DOMAIN stance.cop_trajectory :
                            \E i \in DOMAIN FootData(foot) :
                                FootData(foot)[i] =
                                    PlacedBy(stance.cop_trajectory[k], OwnEvent(foot, stance))
            /\ Len(FootData(foot)) =
                  SumLen(SelectSeq(FootStances(foot), LAMBDA st : HasOwnEvent(foot, st)))

\* Both feet use stance_id 1, the Left contact at 1000 and the Right one at 1200: the
\* index holds the Right event only, the zero is 1200, and both stances start at 0
C24_LeftPlacedByRightEvent ==
    /\ Rendered /\ HasRecords
    /\ Len(OwnFeed("Left")) = 1 /\ Len(OwnFeed("Right")) = 1
    /\ OwnFeed("Left")[1].stance_id = 1 /\ OwnFeed("Left")[1].ic_ts_ms = 1000
    /\ OwnFeed("Right")[1].stance_id = 1 /\ OwnFeed("Right")[1].ic_ts_ms = 1200
    /\ Len(FootStances("Left")) = 1 /\ Len(FootStances("Right")) = 1
    /\ FootStances("Left")[1].stance_id = 1
    /\ FootStances("Right")[1].stance_id = 1
    /\ Times(FootStances("Left")[1].cop_trajectory) = <<0, 5, 10>>
    /\ timeline.minTime = 1200
    /\ Times(timeline.leftData) = <<0, 5, 10>>
    /\ timeline.rightData[1].t_ms = 0

(***************************************************************************)
(* C25: the object shape {Left, Right} of a ball's events and the array    *)
(* shape [{Left, Right}] of the same lists give the same event index, the  *)
(* same global zero, the same two series and the same phase markers.       *)
(***************************************************************************)
\* The same Left/Right lists in the payload's other shape
OtherShape(events) ==
    IF events.isArray THEN [isArray |-> FALSE, object |-> events.items[1]]
    ELSE [isArray |-> TRUE, items |-> <<events.object>>]
InOtherShape(be) == [be EXCEPT !.events = OtherShape(be.events)]

C25_ShapesEquivalent ==
    (Rendered /\ HasRecords) =>
        /\ OtherShape(ballEvents.events).isArray # ballEvents.events.isArray
        /\ eventsMap(InOtherShape(ballEvents)) = eventsMap(ballEvents)
        /\ DOMAIN eventsMap(ballEvents) = FeedIds
        /\ TimelineMemo(ballStanceData, InOtherShape(ballEvents)) = timeline
        /\ ~timeline.threw

\* An array payload with events of both feet: both series and a marker come out
C25_Witness ==
    /\ Rendered /\ HasRecords
    /\ ballEvents.events.isArray
    /\ Len(ballEvents.events.items) = 1
    /\ ballEvents.events.items[1].Left # <<>>
    /\ ballEvents.events.items[1].Right # <<>>
    /\ Cardinality(FeedIds) = 2
    /\ timeline.leftData # <<>>
    /\ timeline.rightData # <<>>
    /\ Len(timeline.phaseMarkers) = 2

(***************************************************************************)
(* C28: with every event's to_ts_ms >= ic_ts_ms >= 0, every phase marker   *)
(* has 0 <= start <= end, also where a stance tagged with the phase has no *)
(* event in the index, and such a stance leaves the marker's bounds as     *)
(* they are without it.                                                    *)
(***************************************************************************)
WellFormedEvents == \A i \in DOMAIN Feed : 0 <= Feed[i].ic_ts_ms /\ Feed[i].ic_ts_ms <= Feed[i].to_ts_ms

C28_MarkersOnTimeline ==
    (Rendered /\ HasRecords /\ WellFormedEvents) =>
        /\ \A i \in DOMAIN timeline.phaseMarkers :
              /\ 0 <= timeline.phaseMarkers[i].start
              /\ timeline.phaseMarkers[i].start <= timeline.phaseMarkers[i].end
        /\ \A phase \in MarkedPhases :
              TaggedMatched(phase) # {} =>
                  \A i \in MarkersNamed(phase) :
                      \E k \in DOMAIN TimelineMemo(WithoutUnmatched(ballStanceData), ballEvents).phaseMarkers :
                          TimelineMemo(WithoutUnmatched(ballStanceData), ballEvents).phaseMarkers[k]
                              = timeline.phaseMarkers[i]

\* The markers of the deliveries whose tagged stances all have their events
C28_MarkersOnTimelineAllMatched ==
    (Rendered /\ HasRecords /\ WellFormedEvents
        /\ \A phase \in MarkedPhases : Tagged(phase) = TaggedMatched(phase)) =>
        \A i \in DOMAIN timeline.phaseMarkers :
            /\ 0 <= timeline.phaseMarkers[i].start
            /\ timeline.phaseMarkers[i].start <= timeline.phaseMarkers[i].end

\* A BFC stance with its event and a BFC stance without: the marker starts at -1000
C28_NegativeStart ==
    /\ Rendered /\ HasRecords /\ WellFormedEvents
    /\ Cardinality(Tagged("BFC")) = 2
    /\ Cardinality(TaggedMatched("BFC")) = 1
    /\ timeline.minTime = 1000
    /\ \E i \in MarkersNamed("BFC") :
          timeline.phaseMarkers[i].start = 0 - 1000 /\ timeline.phaseMarkers[i].end = 40

(***************************************************************************)
(* C30: a foot's series holds one output sample for every input sample of  *)
(* that foot's stances that have an event in the index, none lost, none    *)
(* twice, none of the other foot: as many as the cop_trajectory lengths    *)
(* sum to, and every placed sample as often as the stances give it.        *)
(***************************************************************************)
MatchedStances(foot) == SelectSeq(FootStances(foot), Matched)
\* How often the foot's matched stances give this placed sample
Given(foot, v) ==
    Cardinality({nk \in UNION {{<<n, k>> : k \in DOMAIN MatchedStances(foot)[n].cop_trajectory} :
                                 n \in DOMAIN MatchedStances(foot)} :
                    PlacedBy(MatchedStances(foot)[nk[1]].cop_trajectory[nk[2]],
                             Indexed(MatchedStances(foot)[nk[1]].stance_id)) = v})
\* How often the foot's series holds it
Held(foot, v) == Cardinality({i \in DOMAIN FootData(foot) : FootData(foot)[i] = v})

C30_SamplesConserved ==
    (Rendered /\ HasRecords) =>
        \A foot \in Feet :
            /\ Len(FootData(foot)) = SumLen(MatchedStances(foot))
            /\ \A i \in DOMAIN FootData(foot) :
                  Held(foot, FootData(foot)[i]) = Given(foot, FootData(foot)[i])
            /\ \A n \in DOMAIN MatchedStances(foot) :
                  \A k \in DOMAIN MatchedStances(foot)[n].cop_trajectory :
                      Held(foot, PlacedBy(MatchedStances(foot)[n].cop_trajectory[k],
                                          Indexed(MatchedStances(foot)[n].stance_id))) > 0

\* Two Left stances whose samples fall on the same instants and no Right stance:
\* the Left series keeps all six samples, the Right one is empty
C30_Witness ==
    /\ Rendered /\ HasRecords
    /\ Len(MatchedStances("Left")) = 2
    /\ \A n \in {1, 2} : Times(MatchedStances("Left")[n].cop_trajectory) = <<0, 5, 10>>
    /\ Times(timeline.leftData) = <<0, 0, 5, 5, 10, 10>>
    /\ timeline.rightData = <<>>

(***************************************************************************)
(* C26: in every state of the playback clock, whatever the sequence of     *)
(* play, pause, reset, scrub, setSpeed and ticks, a tick requested before  *)
(* a pause, scrub or reset and run after it included, the cursor is within *)
(* 0 <= currentTime <= maxTime.                                            *)
(***************************************************************************)
C26_CursorInRange == 0 <= currentTime /\ currentTime <= maxTime

\* The upper half, and what keeps the lower half: no operation but a tick with a
\* negative deltaTime takes a cursor that is within the range out of it
C26_CursorWithinMaxTime == currentTime <= maxTime
C26_LeftOnlyByEarlyTick ==
    (0 <= lastOp.before.currentTime /\ ~(Did("tick") /\ lastOp.value < 0)) => 0 <= currentTime

\* Play at cursor 0: the effect's first callback carries a timestamp 10 ms before the
\* effect's performance.now(), and the cursor is -10
C26_CursorBelowZero ==
    /\ Did("tick")
    /\ lastOp.prev = "play"
    /\ lastOp.before.currentTime = 0
    /\ lastOp.value < 0
    /\ isPlaying
    /\ currentTime = 0 - 10

\* A tick requested before a scrub to maxTime runs after it: the cursor returns to 0
C26_StaleTickAtMaxTime ==
    /\ Did("tick")
    /\ lastOp.prev = "scrub"
    /\ lastOp.before.currentTime = maxTime
    /\ currentTime = 0

(***************************************************************************)
(* C27: a clock that is Playing and left to itself, its ticks coming with  *)
(* positive elapsed time and a positive multiplier, reaches Stopped, and   *)
(* once it is Stopped no tick is scheduled any more.                       *)
(***************************************************************************)
C27_PlaybackTerminates ==
    /\ isPlaying ~> ~isPlaying
    /\ [](~isPlaying => [](~isPlaying))
    /\ [](~isPlaying => IsNull(animationFrame))

\* What the code gives: the clock reaches Stopped and stays Stopped, and from some
\* point on no frame is requested and no effect is pending
C27_EventuallyNothingScheduled ==
    /\ isPlaying ~> ~isPlaying
    /\ [](~isPlaying => [](~isPlaying))
    /\ <>[](~isPlaying /\ IsNull(animationFrame) /\ IsNull(pendingEffect))

\* The clock has stopped at the end of the timeline and the frame that the last
\* callback requested is still requested
C27_StoppedWithFrameRequested ==
    /\ Did("tick")
    /\ lastOp.before.isPlaying
    /\ lastOp.value > 0
    /\ ~isPlaying
    /\ ~IsNull(animationFrame)
    /\ ~animationFrame.first

\* That frame's callback ran on the Stopped clock
C27_TickOnStoppedClock ==
    /\ Did("tick")
    /\ lastOp.prev = "tick"
    /\ ~lastOp.before.isPlaying
    /\ currentTime > 0
    /\ IsNull(animationFrame)

(***************************************************************************)
(* C22: where one of the three document fetches has failed, whatever the   *)
(* order the fetches answer in, the application shows the error page, the  *)
(* delivery view and with it the timeline memo are not rendered, and the   *)
(* error page is never left.                                               *)
(***************************************************************************)
AnyFetchFailed == \E doc \in Documents : Failed(fetches[doc])
ErrorShown == Screen = "error"

C22_LoadErrorIsFinal ==
    /\ [](AnyFetchFailed =>
            /\ ErrorShown
            /\ ~IsNull(error)
            /\ ~Mounted
            /\ view = "session"
            /\ timeline = EmptyTimeline
            /\ IsNull(report) /\ IsNull(stanceMetrics) /\ IsNull(eventsFile))
    /\ [][ErrorShown => ErrorShown']_vars
    /\ [](ErrorShown => AnyFetchFailed)

\* The report and the stance metrics answered ok, the events fetch failed last
C22_Witness ==
    /\ fetches["report"] = "ok"
    /\ fetches["stance"] = "ok"
    /\ fetches["events"] = "Failed to load events data"
    /\ error = ErrorOf("Failed to load events data")
    /\ ErrorShown

\* The report's fetch failed first, the two others answered ok after it
C22_FailedFirst ==
    /\ fetches["report"] = "Failed to fetch"
    /\ fetches["stance"] = "ok"
    /\ fetches["events"] = "ok"
    /\ error = ErrorOf("Failed to fetch")
    /\ ErrorShown

\* All three answered ok: a delivery is open and its clock is Playing
C22_LoadedAndPlaying ==
    /\ \A doc \in Documents : fetches[doc] = "ok"
    /\ Mounted
    /\ isPlaying
    /\ delivery.ball_id = 2

(***************************************************************************)
(* C21: each foot's sensor-centroid map is populated at most once while    *)
(* the heatmap is mounted: no SVG load after the one that populated it     *)
(* writes to it again.                                                     *)
(***************************************************************************)
C21_CentroidsWrittenOnce == \A foot \in Feet : centroidState[foot] # "rewritten"

\* What does hold: the load of a CoP sole writes no centroid, and a loadCentroids call
\* that finds the left map populated queues the display soles only
C21_OnlyPressureSolesWrite ==
    [][/\ (\A foot \in Feet : installed'[foot] # NoSole /\ installed'[foot].cop
                                   /\ installed[foot] = installed'[foot])
          => centroidState' = centroidState
       /\ (Len(svgLoads') > Len(svgLoads) /\ DOMAIN sensorCentroids # {})
          => svgLoads'[Len(svgLoads')] = DisplaySoles(viewMode)]_vars

\* The delivery was opened and no view mode was clicked: the load of the display sole
\* of the heatmap mode has written the left map again
C21_RewrittenAtMount ==
    /\ Mounted
    /\ lastOp.op = "select"
    /\ viewMode = "heatmap"
    /\ centroidState["Left"] = "rewritten"

\* Back in the heatmap mode after the CoP mode, with both maps written again
C21_RewrittenAfterSwitch ==
    /\ Mounted
    /\ lastOp.op = "setViewMode"
    /\ svgLoads = <<>>
    /\ \A foot \in Feet : centroidState[foot] = "rewritten"

(***************************************************************************)
(* C29: whatever the view-mode switches and the order the SVG fetches      *)
(* answer in, once no load is pending the markup and the paths installed   *)
(* for each foot are those of the current view mode.                       *)
(***************************************************************************)
LoadsSettled == Mounted /\ svgLoads = <<>> /\ effectMode = viewMode

C29_InstalledMatchesMode ==
    LoadsSettled =>
        /\ \A foot \in Feet : installed[foot] = SoleUrl(foot, viewMode)
        /\ leftPathsRef = PathsOf(SoleUrl("Left", viewMode))

\* What does hold: with no view-mode click since the mount, the settled soles are
\* those of the mode
C29_SettledWithoutSwitch ==
    (LoadsSettled /\ lastOp.op = "select") =>
        /\ \A foot \in Feet : installed[foot] = SoleUrl(foot, viewMode)
        /\ leftPathsRef = PathsOf(SoleUrl("Left", viewMode))

\* The CoP mode with the loads settled and the 4-region soles installed
C29_PressureSolesInCopMode ==
    /\ LoadsSettled
    /\ viewMode = "cop"
    /\ \A foot \in Feet : installed[foot] = SoleUrl(foot, "heatmap")
    /\ leftPathsRef = LoadedPaths

\* Two calls in flight, the older one still loading the soles of the mode left behind
C29_TwoCallsInFlight ==
    /\ Mounted
    /\ Len(svgLoads) = 2
    /\ viewMode = "cop"
    /\ svgLoads[1] = DisplaySoles("heatmap")
    /\ svgLoads[2] = DisplaySoles("cop")

====
